---- MODULE Spec2Model ----
(***************************************************************************)
(* The control server of horizon (package control): the hub sessions of    *)
(* StreamActivity, the broadcast fabric broadcastActivity, and the RPCs    *)
(* that mutate the relational store and publish deltas.                    *)
(*                                                                         *)
(* Every RPC invocation is a call slot c that runs its handler statement   *)
(* by statement (call[c].pc); every StreamActivity invocation is a stream  *)
(* slot s (stream[s].pc).  The store executes each statement issued on     *)
(* s.db atomically and at once (autocommit); statements issued on a        *)
(* transaction handle are buffered in the call and applied by Commit.      *)
(***************************************************************************)
EXTENDS Integers, Sequences, FiniteSets, TLC

\* ---------------------------------------------------------------- bounds
MaxStreams == 2
MaxCalls == 2
MaxOps == 3
MaxKeys == 2
MaxInst == 2
MaxSvc == 2
MaxCallers == 2
MaxBatches == 2

Streams == 1..MaxStreams
Calls == 1..MaxCalls
HubKeys == 1..MaxKeys
Stables == {1}
Instances == 1..MaxInst
SvcIds == 1..MaxSvc
CertCallers == 1..MaxCallers

\* Keys and values of the certificate store are byte strings.
Slash == 47
TimeHeader == 1

\* A namespace is the sequence of its slash-delimited segments.

IsPrefix(p, q) == Len(p) <= Len(q) /\ SubSeq(q, 1, Len(p)) = p

\* ---------------------------------------------------------------- tokens
\* The bearer of a request: kind "absent" is a request without metadata or
\* without an authorization entry.
NoNs == <<0>>
Bearer(kind, role, access, acctNs) ==
  [kind |-> kind, role |-> role, access |-> access, acctNs |-> acctNs]
AbsentBearer == Bearer("absent", "NONE", NoNs, NoNs)
MalformedBearer == Bearer("malformed", "NONE", NoNs, NoNs)
ExpiredBearer == Bearer("expired", "HUB", NoNs, NoNs)
HubBearer == Bearer("valid", "HUB", NoNs, NoNs)
ManageBearer(access, acctNs) == Bearer("valid", "MANAGE", access, acctNs)
\* The shared register-token, presented as the whole authorization value.
RegisterBearer == Bearer("register", "NONE", NoNs, NoNs)

\* token.CheckTokenED25519: the signature and validity check of a bearer.
CheckToken(b) == b.kind = "valid"

\* ValidToken.AllowAccount: the token's namespace is a prefix of ns.
AllowAccount(b, ns) == IsPrefix(b.access, ns)

checkFromHub(b) ==
  IF b.kind = "absent" THEN "bad-auth"
  ELSE IF ~CheckToken(b) THEN "bad-auth"
  ELSE IF b.role # "HUB" THEN "bad-auth"
  ELSE "ok"

checkMgmtAllowed(b) ==
  IF b.kind = "absent" THEN "bad-auth"
  ELSE IF ~CheckToken(b) THEN "bad-auth"
  ELSE IF b.role # "MANAGE" THEN "bad-auth"
  ELSE "ok"


\* ---------------------------------------------------------------- state
VARIABLES
  stream,         \* per StreamActivity invocation: position, key, context
  call,           \* per RPC invocation: position, request, locals, result
  mu,             \* Server.mu: readers holding RLock, writer that called Lock
  connectedHubs,  \* Server.connectedHubs: key -> session (0: no entry)
  hubs,           \* table hubs
  services,       \* table services
  accounts,       \* table accounts
  labelLinks,     \* table label_links
  nextId,         \* next primary key of services / label_links
  managementClients, \* table management_clients
  certStorage,    \* CertStorage: its mu and the "certs" bucket of the Bolt db
  certCall,       \* per caller of CertStorage: position, arguments, result
  activityC,      \* ActivityReader.C: the batch offered on it, and closed
  nOps,           \* RPC invocations started so far
  committed,      \* history: the rows committed, each with its call
  handed,         \* history: deltas each session's sender took from xmit
  sent,           \* history: deltas each session passed to stream.Send
  drained,        \* history: deltas each session's teardown drain consumed
  minted          \* history: token bodies signed so far

vars == <<stream, call, mu, connectedHubs, hubs, services, accounts,
          labelLinks, nextId, managementClients, certStorage, certCall,
          activityC, nOps, committed, handed, sent, drained, minted>>

storeVars == <<hubs, services, accounts, labelLinks, nextId, managementClients>>
certVars == <<certStorage, certCall>>
fabricVars == <<stream, mu, connectedHubs, handed, sent, drained>>

\* No batch is offered on the reader's channel.
NoBatch == <<[json |-> "none", route |-> 0]>>

NoDelta == [bid |-> 0, desc |-> <<"none">>]
NoHub == [stable |-> 0, instance |-> 0, conn |-> 0]

IdleStream ==
  [pc |-> "idle", bearer |-> AbsentBearer, first |-> "none", key |-> 0,
   ctxDone |-> FALSE,
   rcv |-> "none", act |-> NoDelta, ret |-> "none",
   messages |-> 0, bytes |-> 0, flows |-> <<>>, mdiff |-> 0, bdiff |-> 0,
   nBatches |-> 0]

IdleCertCall ==
  [pc |-> "idle", key |-> <<>>, listed |-> FALSE, prefix |-> <<>>,
   recursive |-> FALSE, matches |-> <<>>]

IdleCall ==
  [op |-> "none", pc |-> "idle", id |-> 0, bearer |-> AbsentBearer,
   ctxDone |-> FALSE, acct |-> 0, ns |-> NoNs, hub |-> 0, stable |-> 0,
   svc |-> 0, labels |-> <<>>, target |-> <<>>, caps |-> {}, conn |-> 0,
   todo |-> {}, cur |-> 0, berr |-> "none", status |-> "none",
   resp |-> "none", data |-> {}, hr |-> NoHub, locked |-> FALSE, txDel |-> {},
   txHub |-> NoHub, serr |-> "none", herr |-> "none", err |-> {},
   aborted |-> FALSE, ev |-> <<>>, adds |-> <<>>, nRecv |-> 0]

Init ==
  /\ stream = [s \in Streams |-> IdleStream]
  /\ call = [c \in Calls |-> IdleCall]
  /\ mu = [readers |-> {}, pending |-> 0]
  /\ connectedHubs = [k \in HubKeys |-> 0]
  /\ hubs = {}
  /\ services = {}
  /\ accounts = {}
  /\ labelLinks = {}
  /\ nextId = 1
  /\ managementClients = {}
  /\ certStorage = [mu |-> FALSE, certs |-> {}]
  /\ certCall = [p \in CertCallers |-> IdleCertCall]
  /\ activityC = [offer |-> NoBatch, closed |-> FALSE, n |-> 0]
  /\ nOps = 0
  /\ committed = {}
  /\ handed = [s \in Streams |-> <<>>]
  /\ sent = [s \in Streams |-> <<>>]
  /\ drained = [s \in Streams |-> {}]
  /\ minted = {}

\* ------------------------------------------------------- handler layout
\* The statements of each handler after its authentication and request
\* checks, in program order.  "rlock" stands for the call of
\* broadcastActivity (RLock, fan-out, RUnlock).
AddServiceStepsEarly == <<"rlock", "create", "routing">>

AddServiceSteps == <<"create", "rlock", "routing">>

AddLabelLinkSteps == <<"upsert", "create", "rlock", "links">>

\* The reader's loop: after broadcastActivity it is back at its select.
ActivityReaderSteps == <<"rlock", "select">>

Steps(op) ==
  CASE op = "AddService" -> AddServiceSteps
    [] op = "AddLabelLink" -> AddLabelLinkSteps
    [] op = "ActivityReader" -> ActivityReaderSteps
    [] OTHER -> <<"none">>

After(op, pc) ==
  LET st == Steps(op)
      i == CHOOSE j \in 1..Len(st) : st[j] = pc
  IN IF i = Len(st) THEN "done" ELSE st[i + 1]

At(c, op, pc) == call[c].op = op /\ call[c].pc = pc


\* ------------------------------------------------- StreamActivity (4.4)
\* StreamActivity, lines 549-553: authenticate the stream.
StreamOpen(s, b) ==
  /\ stream[s].pc = "idle"
  /\ stream' = [stream EXCEPT ![s] =
       IF checkFromHub(b) = "ok"
       THEN [@ EXCEPT !.pc = "recvFirst", !.bearer = b]
       ELSE [@ EXCEPT !.pc = "returned", !.ret = "err", !.bearer = b]]
  /\ UNCHANGED <<activityC, certVars, call, mu, connectedHubs, storeVars, nOps,
                 committed, handed, sent, drained, minted>>

\* Lines 555-570: the first inbound frame.  Its kind is "err" (Recv failed),
\* "noreg" (msg.HubReg == nil) or "reg" (a registration of frame.hub).
StreamRecvFirstNoCheck(s, frame) ==
  /\ stream[s].pc = "recvFirst"
  /\ stream' = [stream EXCEPT ![s] =
       IF frame.kind = "err"
       THEN [@ EXCEPT !.pc = "returned", !.ret = "err", !.first = "err"]
       ELSE [@ EXCEPT !.pc = "regLock", !.key = 1, !.first = frame.kind]]
  /\ UNCHANGED <<activityC, certVars, call, mu, connectedHubs, storeVars, nOps,
                 committed, handed, sent, drained, minted>>

StreamRecvFirst(s, frame) ==
  /\ stream[s].pc = "recvFirst"
  /\ stream' = [stream EXCEPT ![s] =
       IF frame.kind = "err"
       THEN [@ EXCEPT !.pc = "returned", !.ret = "err", !.first = "err"]
       ELSE IF frame.kind = "noreg"
       THEN [@ EXCEPT !.pc = "returned", !.ret = "nil", !.first = "noreg"]
       ELSE [@ EXCEPT !.pc = "regLock", !.key = frame.hub, !.first = "reg"]]
  /\ UNCHANGED <<activityC, certVars, call, mu, connectedHubs, storeVars, nOps,
                 committed, handed, sent, drained, minted>>

\* s.mu.Lock() of lines 572 and 591: the writer announces itself, which
\* keeps new readers out, and then waits for the readers to leave.
StreamLock(s) ==
  /\ stream[s].pc \in {"regLock", "tdLock"}
  /\ mu.pending = 0
  /\ mu' = [mu EXCEPT !.pending = s]
  /\ stream' = [stream EXCEPT ![s].pc =
       IF stream[s].pc = "regLock" THEN "regWait" ELSE "tdWait"]
  /\ UNCHANGED <<activityC, certVars, call, connectedHubs, storeVars, nOps,
                 committed, handed, sent, drained, minted>>

\* Lines 572-588: with the write lock, install the session; then derive the
\* session context and start the receiver.
StreamRegister(s) ==
  /\ stream[s].pc = "regWait"
  /\ mu.pending = s /\ mu.readers = {}
  /\ connectedHubs' = [connectedHubs EXCEPT ![stream[s].key] = s]
  /\ mu' = [mu EXCEPT !.pending = 0]
  /\ stream' = [stream EXCEPT ![s].pc = "loop", ![s].rcv = "running"]
  /\ UNCHANGED <<activityC, certVars, call, storeVars, nOps, committed, handed,
                 sent, drained, minted>>

\* Lines 579-588: the receiver's stream.Recv fails and the goroutine returns.
ReceiverRecvErr(s) ==
  /\ stream[s].rcv = "running"
  /\ stream' = [stream EXCEPT ![s].rcv = "stopped"]
  /\ UNCHANGED <<activityC, certVars, call, mu, connectedHubs, storeVars, nOps,
                 committed, handed, sent, drained, minted>>

\* ------------------------------------------------ processFlows (473-546)
\* A FlowRecord carries a Stream record (num_messages, num_bytes), an Agent
\* record or a HubStats record; for the last two msgs is the gauge value.
StreamRecord(m, b) == [kind |-> "stream", msgs |-> m, bytes |-> b]
AgentRecord(n) == [kind |-> "agent", msgs |-> n, bytes |-> 0]
HubStatsRecord(n) == [kind |-> "hubstats", msgs |-> n, bytes |-> 0]

\* Lines 474-479: the loop adds up the Stream records of the batch.
RECURSIVE FlowDiff(_)
FlowDiff(flows) ==
  IF flows = <<>> THEN [m |-> 0, b |-> 0]
  ELSE LET rest == FlowDiff(Tail(flows))
           rec == Head(flows)
       IN IF rec.kind = "stream"
          THEN [m |-> rest.m + rec.msgs, b |-> rest.b + rec.bytes]
          ELSE rest

\* Lines 581-586 and 474-538: stream.Recv returns a message and processFlows
\* runs its loop over msg.Flow.
ReceiverRecvFlows(s, flows) ==
  /\ stream[s].rcv = "running"
  /\ stream[s].nBatches < MaxBatches
  /\ stream' = [stream EXCEPT ![s].rcv = "addMessages",
                              ![s].flows = flows,
                              ![s].mdiff = FlowDiff(flows).m,
                              ![s].bdiff = FlowDiff(flows).b,
                              ![s].nBatches = @ + 1]
  /\ UNCHANGED <<activityC, certVars, call, mu, connectedHubs, storeVars, nOps,
                 committed, handed, sent, drained, minted>>

\* A counter update that would store the batch's sum.
ReceiverAddMessagesStore(s) ==
  /\ stream[s].rcv = "addMessages"
  /\ stream' = [stream EXCEPT ![s].rcv = "addBytes",
                              ![s].messages = stream[s].mdiff]
  /\ UNCHANGED <<activityC, certVars, call, mu, connectedHubs, storeVars, nOps,
                 committed, handed, sent, drained, minted>>

\* Line 541: atomic.AddInt64(ch.messages, mdiff).
ReceiverAddMessages(s) ==
  /\ stream[s].rcv = "addMessages"
  /\ stream' = [stream EXCEPT ![s].rcv = "addBytes",
                              ![s].messages = @ + stream[s].mdiff]
  /\ UNCHANGED <<activityC, certVars, call, mu, connectedHubs, storeVars, nOps,
                 committed, handed, sent, drained, minted>>

\* Line 542: atomic.AddInt64(ch.bytes, bdiff); the receiver goes back to Recv.
ReceiverAddBytes(s) ==
  /\ stream[s].rcv = "addBytes"
  /\ stream' = [stream EXCEPT ![s].rcv = "running",
                              ![s].bytes = @ + stream[s].bdiff]
  /\ UNCHANGED <<activityC, certVars, call, mu, connectedHubs, storeVars, nOps,
                 committed, handed, sent, drained, minted>>

\* The stream's context is cancelled by the transport (the client went away).
\* The handler reads the context only in the sender's select, so a
\* cancellation before the sender runs is one observed at its first select.
StreamCtxCancel(s) ==
  /\ stream[s].pc \in {"loop", "send"}
  /\ ~stream[s].ctxDone
  /\ stream' = [stream EXCEPT ![s].ctxDone = TRUE]
  /\ UNCHANGED <<activityC, certVars, call, mu, connectedHubs, storeVars, nOps,
                 committed, handed, sent, drained, minted>>

\* Lines 608-610: the sender's select takes <-ctx.Done(); the deferred
\* teardown starts.
SenderCtxDone(s) ==
  /\ stream[s].pc = "loop"
  /\ stream[s].ctxDone
  /\ stream' = [stream EXCEPT ![s].pc = "tdLock", ![s].ret = "err"]
  /\ UNCHANGED <<activityC, certVars, call, mu, connectedHubs, storeVars, nOps,
                 committed, handed, sent, drained, minted>>

\* What stream.Send(act) adds to the frames the hub has received.
TransmitReversed(log, act) == <<act>> \o log

Transmit(log, act) == Append(log, act)

\* Lines 616-619: stream.Send of the delta just taken from xmit.
SenderSend(s, ok) ==
  /\ stream[s].pc = "send"
  /\ IF ok
     THEN /\ sent' = [sent EXCEPT ![s] = Transmit(@, stream[s].act)]
          /\ stream' = [stream EXCEPT ![s].pc = "loop", ![s].act = NoDelta]
     ELSE /\ sent' = sent
          /\ stream' = [stream EXCEPT ![s].pc = "tdLock", ![s].ret = "err",
                                      ![s].act = NoDelta]
  /\ UNCHANGED <<activityC, certVars, call, mu, connectedHubs, storeVars, nOps,
                 committed, handed, drained, minted>>

\* Lines 590-593: with the write lock, delete(s.connectedHubs, key).
StreamDeregister(s) ==
  /\ stream[s].pc = "tdWait"
  /\ mu.pending = s /\ mu.readers = {}
  /\ connectedHubs' = [connectedHubs EXCEPT ![stream[s].key] = 0]
  /\ mu' = [mu EXCEPT !.pending = 0]
  /\ stream' = [stream EXCEPT ![s].pc = "drain"]
  /\ UNCHANGED <<activityC, certVars, call, storeVars, nOps, committed, handed,
                 sent, drained, minted>>

\* ---------------------------------------------- broadcastActivity (4.5)
Delta(c) ==
  [bid |-> call[c].id,
   desc |-> IF call[c].op = "AddService"
            THEN <<"svc", call[c].acct, call[c].hub, call[c].svc>>
            ELSE IF call[c].op = "ActivityReader"
            THEN <<"activity", call[c].nRecv, call[c].adds>>
            ELSE <<"link", call[c].acct, call[c].labels, call[c].target>>]

\* The sessions in the registry: the values of the map.
RegisteredSessions == {connectedHubs[k] : k \in HubKeys} \ {0}

Broadcasting(c) == call[c].pc = "fanout"

BlockedOn(c, s) == Broadcasting(c) /\ call[c].cur = s

\* Lines 669-672: RLock, and the range over the map reaches its first entry
\* (Go ranges over a map in no fixed order).
BroadcastRLock(c) ==
  /\ call[c].pc = "rlock"
  /\ mu.pending = 0
  /\ mu' = [mu EXCEPT !.readers = @ \cup {c}]
  /\ \E h \in (IF RegisteredSessions = {} THEN {0} ELSE RegisteredSessions) :
       call' = [call EXCEPT ![c].pc = "fanout", ![c].cur = h,
                            ![c].todo = RegisteredSessions \ {h}]
  /\ UNCHANGED <<activityC, certVars, stream, connectedHubs, storeVars, nOps,
                 committed, handed, sent, drained, minted>>

\* The range moves to the next entry, or ends.
NextHub(c) ==
  \E h \in (IF call[c].todo = {} THEN {0} ELSE call[c].todo) :
    call' = [call EXCEPT ![c].cur = h, ![c].todo = @ \ {h}]

\* A fan-out that would not wait for a busy sender: the entry is passed over.
DeliverDropping(c, s) ==
  /\ BlockedOn(c, s)
  /\ stream[s].pc \in {"loop", "send"}
  /\ IF stream[s].pc = "loop"
     THEN /\ stream' = [stream EXCEPT ![s].pc = "send", ![s].act = Delta(c)]
          /\ handed' = [handed EXCEPT ![s] = Append(@, Delta(c))]
     ELSE UNCHANGED <<stream, handed>>
  /\ NextHub(c)
  /\ UNCHANGED <<activityC, certVars, mu, connectedHubs, storeVars, nOps,
                 committed, sent, drained, minted>>

\* Lines 676 and 611: hub.xmit <- act meets the sender's <-ch.xmit (the
\* channel is unbuffered).
Deliver(c, s) ==
  /\ BlockedOn(c, s)
  /\ stream[s].pc = "loop"
  /\ stream' = [stream EXCEPT ![s].pc = "send", ![s].act = Delta(c)]
  /\ handed' = [handed EXCEPT ![s] = Append(@, Delta(c))]
  /\ NextHub(c)
  /\ UNCHANGED <<activityC, certVars, mu, connectedHubs, storeVars, nOps,
                 committed, sent, drained, minted>>

\* Lines 597-604: one turn of the teardown's for/select.  With a broadcaster
\* blocked on xmit the receive case takes its delta; otherwise the default
\* case runs.  Neither case leaves the loop.
Drain(s) ==
  /\ stream[s].pc = "drain"
  /\ IF \E c \in Calls : BlockedOn(c, s)
     THEN \E c \in Calls :
            /\ BlockedOn(c, s)
            /\ drained' = [drained EXCEPT ![s] = @ \cup {Delta(c)}]
            /\ NextHub(c)
            /\ UNCHANGED <<activityC, certVars, stream, mu, connectedHubs,
                           storeVars, nOps, committed, handed, sent, minted>>
     ELSE UNCHANGED vars

\* An abort that would leave without the deferred RUnlock.
BroadcastAbortHolding(c) ==
  /\ Broadcasting(c)
  /\ call[c].cur # 0
  /\ call[c].ctxDone
  /\ call' = [call EXCEPT ![c].pc = After(call[c].op, "rlock"),
                          ![c].cur = 0, ![c].todo = {},
                          ![c].berr = "cancelled"]
  /\ UNCHANGED <<activityC, certVars, mu, stream, connectedHubs, storeVars,
                 nOps, committed, handed, sent, drained, minted>>

\* Lines 674-675 and 670: the select takes <-ctx.Done(); the deferred RUnlock
\* runs and ctx.Err() is returned.
BroadcastAbort(c) ==
  /\ Broadcasting(c)
  /\ call[c].cur # 0
  /\ call[c].ctxDone
  /\ mu' = [mu EXCEPT !.readers = @ \ {c}]
  /\ call' = [call EXCEPT ![c].pc = After(call[c].op, "rlock"),
                          ![c].cur = 0, ![c].todo = {},
                          ![c].berr = "cancelled"]
  /\ UNCHANGED <<activityC, certVars, stream, connectedHubs, storeVars, nOps,
                 committed, handed, sent, drained, minted>>

\* Lines 681 and 670: the range is over; RUnlock and return nil.
BroadcastReturn(c) ==
  /\ Broadcasting(c)
  /\ call[c].cur = 0
  /\ mu' = [mu EXCEPT !.readers = @ \ {c}]
  /\ call' = [call EXCEPT ![c].pc = After(call[c].op, "rlock"),
                          ![c].berr = "nil"]
  /\ UNCHANGED <<activityC, certVars, stream, connectedHubs, storeVars, nOps,
                 committed, handed, sent, drained, minted>>

\* The caller of an RPC goes away: its context is cancelled.  The handlers
\* read the context only in the select of broadcastActivity.
CallCtxCancel(c) ==
  /\ Broadcasting(c)
  /\ ~call[c].ctxDone
  /\ call' = [call EXCEPT ![c].ctxDone = TRUE]
  /\ UNCHANGED <<activityC, certVars, stream, mu, connectedHubs, storeVars,
                 nOps, committed, handed, sent, drained, minted>>


\* ------------------------------------------------------------ RPCs (4.6)
\* FlattenLabels: the canonical string of a label set (sorted, delimited).
RECURSIVE InsertSorted(_, _)
InsertSorted(x, seq) ==
  IF seq = <<>> THEN <<x>>
  ELSE IF x <= Head(seq) THEN <<x>> \o seq
  ELSE <<Head(seq)>> \o InsertSorted(x, Tail(seq))

RECURSIVE FlattenLabels(_)
FlattenLabels(ls) ==
  IF ls = <<>> THEN <<>> ELSE InsertSorted(Head(ls), FlattenLabels(Tail(ls)))

\* The row a delta describes.
RowOf(desc) ==
  IF desc[1] = "link"
  THEN <<"link", desc[2], FlattenLabels(desc[3]), FlattenLabels(desc[4])>>
  ELSE desc

\* The row a call's Create commits, with the call that committed it.
Committed(c) == [bid |-> call[c].id, row |-> RowOf(Delta(c).desc)]

Begin(c, op, b) ==
  [IdleCall EXCEPT !.op = op, !.id = nOps + 1, !.bearer = b]

Fail(c, status) == [call EXCEPT ![c].pc = "done", ![c].status = status]

\* AddService, lines 263-273.
AddServiceStart(c, b, acct, hub, svc) ==
  /\ call[c].pc = "idle"
  /\ nOps < MaxOps
  /\ nOps' = nOps + 1
  /\ call' = [call EXCEPT ![c] =
       LET r == [Begin(c, "AddService", b) EXCEPT
                   !.acct = acct, !.hub = hub, !.svc = svc]
       IN IF checkFromHub(b) = "ok"
          THEN [r EXCEPT !.pc = AddServiceSteps[1]]
          ELSE [r EXCEPT !.pc = "done", !.status = "bad-auth"]]
  /\ UNCHANGED <<activityC, certVars, fabricVars, storeVars, committed,
                 minted>>

\* Lines 275-278: s.db.Create(&so).
AddServiceCreate(c, fail) ==
  /\ At(c, "AddService", "create")
  /\ IF fail
     THEN /\ call' = Fail(c, "store-failure")
          /\ UNCHANGED <<services, nextId, committed>>
     ELSE /\ services' = services \cup
               {[id |-> nextId, svc |-> call[c].svc, hub |-> call[c].hub,
                 acct |-> call[c].acct]}
          /\ nextId' = nextId + 1
          /\ committed' = committed \cup {Committed(c)}
          /\ call' = [call EXCEPT ![c].pc = After("AddService", "create")]
  /\ UNCHANGED <<activityC, certVars, managementClients, fabricVars, hubs,
                 accounts, labelLinks, nOps, minted>>

\* Lines 296-301: updateAccountRouting, whose error is the handler's.
AddServiceRouting(c, fail) ==
  /\ At(c, "AddService", "routing")
  /\ call' = [call EXCEPT
       ![c].pc = IF fail THEN "done" ELSE After("AddService", "routing"),
       ![c].status = IF fail THEN "store-failure" ELSE "ok",
       ![c].resp = IF fail THEN "none" ELSE "service"]
  /\ UNCHANGED <<activityC, certVars, fabricVars, storeVars, nOps, committed,
                 minted>>

\* AddLabelLink, lines 805-816.
AddLabelLinkStart(c, b, acct, ns, labels, target) ==
  /\ call[c].pc = "idle"
  /\ nOps < MaxOps
  /\ nOps' = nOps + 1
  /\ call' = [call EXCEPT ![c] =
       LET ns1 == IF ns = <<>> /\ checkMgmtAllowed(b) = "ok"
                  THEN b.acctNs ELSE ns
           r == [Begin(c, "AddLabelLink", b) EXCEPT
                   !.acct = acct, !.ns = ns1, !.labels = labels,
                   !.target = target]
       IN IF checkMgmtAllowed(b) # "ok"
          THEN [r EXCEPT !.pc = "done", !.status = "bad-auth"]
          ELSE IF ~AllowAccount(b, ns1)
          THEN [r EXCEPT !.pc = "done", !.status = "invalid-request"]
          ELSE [r EXCEPT !.pc = AddLabelLinkSteps[1]]]
  /\ UNCHANGED <<activityC, certVars, fabricVars, storeVars, committed,
                 minted>>

\* INSERT ... ON CONFLICT (id) DO UPDATE SET namespace = EXCLUDED.namespace.
UpsertAccount(id, ns) ==
  {a \in accounts : a.id # id} \cup {[id |-> id, ns |-> ns]}

\* Lines 818-827.
AddLabelLinkUpsert(c, fail) ==
  /\ At(c, "AddLabelLink", "upsert")
  /\ IF fail
     THEN /\ call' = Fail(c, "store-failure")
          /\ UNCHANGED accounts
     ELSE /\ accounts' = UpsertAccount(call[c].acct, call[c].ns)
          /\ call' = [call EXCEPT ![c].pc = After("AddLabelLink", "upsert")]
  /\ UNCHANGED <<activityC, certVars, managementClients, fabricVars, hubs,
                 services, labelLinks, nextId, nOps, committed, minted>>

\* The unique index of label_links on (account_id, labels): a row with this
\* key is already there.
LabelLinkConflict(acct, labels) ==
  \E l \in labelLinks : l.acct = acct /\ l.labels = labels

\* A Create that would insert whatever the table holds.
AddLabelLinkCreateAlways(c, fail) ==
  /\ At(c, "AddLabelLink", "create")
  /\ IF fail
     THEN /\ call' = Fail(c, "store-failure")
          /\ UNCHANGED <<labelLinks, nextId, committed>>
     ELSE /\ labelLinks' = labelLinks \cup
               {[id |-> nextId, acct |-> call[c].acct,
                 labels |-> FlattenLabels(call[c].labels),
                 target |-> FlattenLabels(call[c].target)]}
          /\ nextId' = nextId + 1
          /\ committed' = committed \cup {Committed(c)}
          /\ call' = [call EXCEPT ![c].pc = After("AddLabelLink", "create")]
  /\ UNCHANGED <<activityC, certVars, managementClients, fabricVars, hubs,
                 services, accounts, nOps, minted>>

\* Lines 829-837: s.db.Create(&llr); the insert of a duplicate key fails.
AddLabelLinkCreate(c, fail) ==
  /\ At(c, "AddLabelLink", "create")
  /\ IF fail \/ LabelLinkConflict(call[c].acct, FlattenLabels(call[c].labels))
     THEN /\ call' = Fail(c, IF fail THEN "store-failure"
                                     ELSE "duplicate-key")
          /\ UNCHANGED <<labelLinks, nextId, committed>>
     ELSE /\ labelLinks' = labelLinks \cup
               {[id |-> nextId, acct |-> call[c].acct,
                 labels |-> FlattenLabels(call[c].labels),
                 target |-> FlattenLabels(call[c].target)]}
          /\ nextId' = nextId + 1
          /\ committed' = committed \cup {Committed(c)}
          /\ call' = [call EXCEPT ![c].pc = After("AddLabelLink", "create")]
  /\ UNCHANGED <<activityC, certVars, managementClients, fabricVars, hubs,
                 services, accounts, nOps, minted>>

\* Lines 850-855: updateLabelLinks, whose error is the handler's.
AddLabelLinkLinks(c, fail) ==
  /\ At(c, "AddLabelLink", "links")
  /\ call' = [call EXCEPT
       ![c].pc = IF fail THEN "done" ELSE After("AddLabelLink", "links"),
       ![c].status = IF fail THEN "store-failure" ELSE "ok",
       ![c].resp = IF fail THEN "none" ELSE "noop"]
  /\ UNCHANGED <<activityC, certVars, fabricVars, storeVars, nOps, committed,
                 minted>>

\* ---------------------------------------------------- store, row locks
\* The Hub row of a stable id, NoHub when there is none.
HubRow(S) ==
  IF \E h \in hubs : h.stable = S
  THEN CHOOSE h \in hubs : h.stable = S
  ELSE NoHub

\* A transaction holds the row lock of hubs[S] (SELECT ... FOR UPDATE, or
\* its uncommitted insert of the key).
Locked(S) == \E c \in Calls : call[c].locked /\ call[c].stable = S

\* Service rows deleted by a transaction that has not committed yet: the
\* deleting transaction holds their row locks.
PendingDel == UNION {call[c].txDel : c \in Calls}

ServicesOf(hubId) == {r \in services : r.hub = hubId}

\* ------------------------------------------------ RemoveService (304-321)
RemoveServiceStart(c, b, acct, svc) ==
  /\ call[c].pc = "idle"
  /\ nOps < MaxOps
  /\ nOps' = nOps + 1
  /\ call' = [call EXCEPT ![c] =
       LET r == [Begin(c, "RemoveService", b) EXCEPT !.acct = acct, !.svc = svc]
       IN IF checkFromHub(b) = "ok"
          THEN [r EXCEPT !.pc = "delete"]
          ELSE [r EXCEPT !.pc = "done", !.status = "bad-auth"]]
  /\ UNCHANGED <<activityC, certVars, fabricVars, storeVars, committed,
                 minted>>

\* Line 310: DELETE FROM services WHERE service_id = ?.
RemoveServiceDelete(c, fail) ==
  /\ At(c, "RemoveService", "delete")
  /\ IF fail
     THEN /\ call' = Fail(c, "store-failure")
          /\ UNCHANGED services
     ELSE /\ {r.id : r \in {x \in services : x.svc = call[c].svc}}
               \cap PendingDel = {}
          /\ services' = {r \in services : r.svc # call[c].svc}
          /\ call' = [call EXCEPT ![c].pc = "routing"]
  /\ UNCHANGED <<activityC, certVars, managementClients, fabricVars, hubs,
                 accounts, labelLinks, nextId, nOps, committed, minted>>

\* Lines 315-320: updateAccountRouting, whose error is the handler's.
RemoveServiceRouting(c, fail) ==
  /\ At(c, "RemoveService", "routing")
  /\ call' = [call EXCEPT ![c].pc = "done",
                          ![c].status = IF fail THEN "store-failure" ELSE "ok",
                          ![c].resp = IF fail THEN "none" ELSE "service"]
  /\ UNCHANGED <<activityC, certVars, fabricVars, storeVars, nOps, committed,
                 minted>>

\* -------------------------------------------------- FetchConfig (365-446)
FetchConfigStart(c, b, S, I, loc) ==
  /\ call[c].pc = "idle"
  /\ nOps < MaxOps
  /\ nOps' = nOps + 1
  /\ call' = [call EXCEPT ![c] =
       LET r == [Begin(c, "FetchConfig", b) EXCEPT
                   !.stable = S, !.hub = I, !.conn = loc]
       IN IF checkFromHub(b) = "ok"
          THEN [r EXCEPT !.pc = "begin"]
          ELSE [r EXCEPT !.pc = "done", !.status = "bad-auth"]]
  /\ UNCHANGED <<activityC, certVars, fabricVars, storeVars, committed,
                 minted>>

\* A branch that would remove the services whenever a Hub row is found.
FetchConfigBeginAlwaysRemove(c) ==
  /\ At(c, "FetchConfig", "begin")
  /\ ~Locked(call[c].stable)
  /\ LET hr == HubRow(call[c].stable)
     IN call' = [call EXCEPT
          ![c].hr = hr,
          ![c].locked = (hr # NoHub),
          ![c].pc = IF hr = NoHub THEN "insert" ELSE "remove"]
  /\ UNCHANGED <<activityC, certVars, fabricVars, storeVars, nOps, committed,
                 minted>>

\* Lines 382-390 and 403-405: Begin, SELECT ... FOR UPDATE of the Hub row
\* (which waits for the row lock), and the branch on what it found.
FetchConfigBegin(c) ==
  /\ At(c, "FetchConfig", "begin")
  /\ ~Locked(call[c].stable)
  /\ LET hr == HubRow(call[c].stable)
     IN call' = [call EXCEPT
          ![c].hr = hr,
          ![c].locked = (hr # NoHub),
          ![c].pc = IF hr = NoHub THEN "insert"
                    ELSE IF call[c].hub # hr.instance THEN "remove"
                    ELSE "update"]
  /\ UNCHANGED <<activityC, certVars, fabricVars, storeVars, nOps, committed,
                 minted>>

\* Lines 384-390 and 402-405: First fails with an error other than
\* record-not-found.  The handler takes the else branch with hr at its zero
\* value, so prev differs from the requested instance; the failed statement
\* has aborted the transaction, whose later statements fail.
FetchConfigFindFailed(c) ==
  /\ At(c, "FetchConfig", "begin")
  /\ call' = [call EXCEPT ![c].hr = NoHub, ![c].aborted = TRUE,
                          ![c].pc = "remove"]
  /\ UNCHANGED <<activityC, certVars, fabricVars, storeVars, nOps, committed,
                 minted>>

\* tx.Rollback() and return of the error: the buffered statements are
\* dropped and the row locks released.
Rollback(c) ==
  [call EXCEPT ![c].pc = "done", ![c].status = "store-failure",
               ![c].locked = FALSE, ![c].txDel = {}, ![c].txHub = NoHub]

\* Lines 391-401: tx.Create(&hr).  The insert waits for a transaction that
\* holds the key and fails when the key is committed.
FetchConfigInsert(c, fail) ==
  /\ At(c, "FetchConfig", "insert")
  /\ ~Locked(call[c].stable)
  /\ IF fail \/ HubRow(call[c].stable) # NoHub
     THEN call' = Rollback(c)
     ELSE call' = [call EXCEPT
            ![c].locked = TRUE,
            ![c].txHub = [stable |-> call[c].stable,
                          instance |-> call[c].hub, conn |-> call[c].conn],
            ![c].pc = "commit"]
  /\ UNCHANGED <<activityC, certVars, fabricVars, storeVars, nOps, committed,
                 minted>>

\* removeHubServices run on the store handle db (323-349) at the time of its
\* DELETE: the Service rows it deletes.
removeHubServices(hubId) == {r.id : r \in ServicesOf(hubId)}

\* A removal that would run on the store handle instead of the transaction.
FetchConfigRemoveAutocommit(c, fail) ==
  /\ At(c, "FetchConfig", "remove")
  /\ IF fail \/ call[c].aborted
     THEN /\ call' = Rollback(c)
          /\ UNCHANGED services
     ELSE /\ services' = {r \in services : r.hub # call[c].hr.instance}
          /\ call' = [call EXCEPT ![c].pc = "update"]
  /\ UNCHANGED <<activityC, certVars, managementClients, fabricVars, hubs,
                 accounts, labelLinks, nextId, nOps, committed, minted>>

\* Lines 406-413: removeHubServices(ctx, tx, prev).  Its Find, its Delete or
\* its routing update may fail.
FetchConfigRemove(c, fail) ==
  /\ At(c, "FetchConfig", "remove")
  /\ IF fail \/ call[c].aborted
     THEN call' = Rollback(c)
     ELSE call' = [call EXCEPT
            ![c].txDel = removeHubServices(call[c].hr.instance),
            ![c].pc = "update"]
  /\ UNCHANGED <<activityC, certVars, fabricVars, storeVars, nOps, committed,
                 minted>>

\* Lines 416-428: tx.Model(&hr).Updates(connection_info, instance_id,
\* last_checkin).
FetchConfigUpdate(c, fail) ==
  /\ At(c, "FetchConfig", "update")
  /\ IF fail \/ call[c].aborted
     THEN call' = Rollback(c)
     ELSE call' = [call EXCEPT
            ![c].txHub = [stable |-> call[c].stable,
                          instance |-> call[c].hub, conn |-> call[c].conn],
            ![c].pc = "commit"]
  /\ UNCHANGED <<activityC, certVars, fabricVars, storeVars, nOps, committed,
                 minted>>

\* Lines 431-445: tx.Commit().  The buffered statements take effect at once.
FetchConfigCommit(c, fail) ==
  /\ At(c, "FetchConfig", "commit")
  /\ IF fail \/ call[c].aborted
     THEN /\ call' = Rollback(c)
          /\ UNCHANGED <<hubs, services>>
     ELSE /\ services' = {r \in services : r.id \notin call[c].txDel}
          /\ hubs' = {h \in hubs : h.stable # call[c].stable}
                       \cup {call[c].txHub}
          /\ call' = [call EXCEPT ![c].pc = "done", ![c].status = "ok",
                                  ![c].locked = FALSE, ![c].txDel = {},
                                  ![c].resp = "config"]
  /\ UNCHANGED <<activityC, certVars, managementClients, fabricVars, accounts,
                 labelLinks, nextId, nOps, committed, minted>>

\* ------------------------------------------------ HubDisconnect (448-471)
HubDisconnectStart(c, b, S, I) ==
  /\ call[c].pc = "idle"
  /\ nOps < MaxOps
  /\ nOps' = nOps + 1
  /\ call' = [call EXCEPT ![c] =
       LET r == [Begin(c, "HubDisconnect", b) EXCEPT !.stable = S, !.hub = I]
       IN IF checkFromHub(b) = "ok"
          THEN [r EXCEPT !.pc = "remove"]
          ELSE [r EXCEPT !.pc = "done", !.status = "bad-auth"]]
  /\ UNCHANGED <<activityC, certVars, fabricVars, storeVars, committed,
                 minted>>

\* Lines 457-459: if err != nil { err = multierror.Append(err, serr) }.
\* err is the set of causes it holds (empty: nil); serr is "nil" or "failed".
AccumulateServiceError(err, serr) ==
  IF err # {} THEN err \cup (IF serr = "failed" THEN {"services"} ELSE {})
  ELSE err

\* Lines 464-466: if serr != nil { err = multierror.Append(err, serr) }.
AccumulateHubError(err, serr) ==
  IF serr # "nil" THEN err \cup {"hub"} ELSE err

HubDisconnectRemoveShort(c, outcome) ==
  /\ At(c, "HubDisconnect", "remove")
  /\ IF outcome = "ok" \/ outcome = "routing-failed"
     THEN /\ removeHubServices(call[c].hub) \cap PendingDel = {}
          /\ services' = services \ ServicesOf(call[c].hub)
     ELSE services' = services
  /\ call' = IF outcome = "ok"
             THEN [call EXCEPT ![c].serr = "nil", ![c].pc = "hubDelete"]
             ELSE [call EXCEPT ![c].serr = "failed", ![c].pc = "done",
                               ![c].status = "store-failure"]
  /\ UNCHANGED <<activityC, certVars, managementClients, fabricVars, hubs,
                 accounts, labelLinks, nextId, nOps, committed, minted>>

\* Lines 456-459: removeHubServices(ctx, s.db, req.InstanceId).  outcome is
\* "ok", "find-failed", "delete-failed" (nothing deleted) or "routing-failed"
\* (the rows are deleted, updateAccountRouting failed).
HubDisconnectRemove(c, outcome) ==
  /\ At(c, "HubDisconnect", "remove")
  /\ IF outcome = "ok" \/ outcome = "routing-failed"
     THEN /\ removeHubServices(call[c].hub) \cap PendingDel = {}
          /\ services' = services \ ServicesOf(call[c].hub)
     ELSE services' = services
  /\ LET serr == IF outcome = "ok" THEN "nil" ELSE "failed"
     IN call' = [call EXCEPT
          ![c].serr = serr,
          ![c].err = AccumulateServiceError(call[c].err, serr),
          ![c].pc = "hubDelete"]
  /\ UNCHANGED <<activityC, certVars, managementClients, fabricVars, hubs,
                 accounts, labelLinks, nextId, nOps, committed, minted>>

\* Lines 463-470: DELETE FROM hubs WHERE stable_id = ?, and the return of
\* the accumulated error.  The delete waits for the row lock.
HubDisconnectHubDelete(c, fail) ==
  /\ At(c, "HubDisconnect", "hubDelete")
  /\ IF fail
     THEN hubs' = hubs
     ELSE /\ ~(HubRow(call[c].stable) # NoHub /\ Locked(call[c].stable))
          /\ hubs' = {h \in hubs : h.stable # call[c].stable}
  /\ LET herr == IF fail THEN "failed" ELSE "nil"
         err == AccumulateHubError(call[c].err, herr)
     IN call' = [call EXCEPT
          ![c].herr = herr,
          ![c].err = err,
          ![c].pc = "done",
          ![c].status = IF err = {} THEN "ok" ELSE "composite",
          ![c].resp = "noop"]
  /\ UNCHANGED <<activityC, certVars, managementClients, fabricVars, services,
                 accounts, labelLinks, nextId, nOps, committed, minted>>

\* ------------------------------------------------------ AllHubs (944-969)
\* The handler reads no metadata: whatever the bearer, it goes on.
AllHubsStart(c, b) ==
  /\ call[c].pc = "idle"
  /\ nOps < MaxOps
  /\ nOps' = nOps + 1
  /\ call' = [call EXCEPT ![c] = [Begin(c, "AllHubs", b) EXCEPT !.pc = "find"]]
  /\ UNCHANGED <<activityC, certVars, fabricVars, storeVars, committed,
                 minted>>

\* Lines 945-968: s.db.Find(&hubs) and the list of their instance ids.
AllHubsFind(c, fail) ==
  /\ At(c, "AllHubs", "find")
  /\ call' = IF fail THEN Fail(c, "store-failure")
             ELSE [call EXCEPT ![c].pc = "done", ![c].status = "ok",
                               ![c].resp = "hubs",
                               ![c].data = {h.instance : h \in hubs}]
  /\ UNCHANGED <<activityC, certVars, fabricVars, storeVars, nOps, committed,
                 minted>>

\* -------------------------------------------------- CreateToken (892-942)
Access(ns) == [cap |-> "ACCESS", value |-> ns]
Connect == [cap |-> "CONNECT", value |-> NoNs]

CreateTokenStartNoCapCheck(c, b, acct, ns, caps) ==
  /\ call[c].pc = "idle"
  /\ nOps < MaxOps
  /\ nOps' = nOps + 1
  /\ call' = [call EXCEPT ![c] =
       LET r == [Begin(c, "CreateToken", b) EXCEPT
                   !.acct = acct, !.ns = ns, !.caps = caps]
       IN IF checkMgmtAllowed(b) # "ok"
          THEN [r EXCEPT !.pc = "done", !.status = "bad-auth"]
          ELSE IF ~AllowAccount(b, ns)
          THEN [r EXCEPT !.pc = "done", !.status = "invalid-request"]
          ELSE [r EXCEPT !.pc = "upsert"]]
  /\ UNCHANGED <<activityC, certVars, fabricVars, storeVars, committed,
                 minted>>

\* Lines 893-909: the caller, the account namespace, and every requested
\* ACCESS capability.
CreateTokenStart(c, b, acct, ns, caps) ==
  /\ call[c].pc = "idle"
  /\ nOps < MaxOps
  /\ nOps' = nOps + 1
  /\ call' = [call EXCEPT ![c] =
       LET r == [Begin(c, "CreateToken", b) EXCEPT
                   !.acct = acct, !.ns = ns, !.caps = caps]
       IN IF checkMgmtAllowed(b) # "ok"
          THEN [r EXCEPT !.pc = "done", !.status = "bad-auth"]
          ELSE IF ~AllowAccount(b, ns)
          THEN [r EXCEPT !.pc = "done", !.status = "invalid-request"]
          ELSE IF \E k \in caps : k.cap = "ACCESS" /\ ~AllowAccount(b, k.value)
          THEN [r EXCEPT !.pc = "done", !.status = "invalid-request"]
          ELSE [r EXCEPT !.pc = "upsert"]]
  /\ UNCHANGED <<activityC, certVars, fabricVars, storeVars, committed,
                 minted>>

\* Lines 917-928: the account upsert.
CreateTokenUpsert(c, fail) ==
  /\ At(c, "CreateToken", "upsert")
  /\ IF fail
     THEN /\ call' = Fail(c, "store-failure")
          /\ UNCHANGED accounts
     ELSE /\ accounts' = UpsertAccount(call[c].acct, call[c].ns)
          /\ call' = [call EXCEPT ![c].pc = "mint"]
  /\ UNCHANGED <<activityC, certVars, managementClients, fabricVars, hubs,
                 services, labelLinks, nextId, nOps, committed, minted>>

\* Lines 930-941: the token is signed by the secret manager and returned.
CreateTokenMint(c, fail) ==
  /\ At(c, "CreateToken", "mint")
  /\ IF fail
     THEN /\ call' = Fail(c, "upstream-failure")
          /\ UNCHANGED minted
     ELSE /\ minted' = minted \cup
               {[by |-> call[c].id, acct |-> call[c].acct, ns |-> call[c].ns,
                 caps |-> call[c].caps]}
          /\ call' = [call EXCEPT ![c].pc = "done", ![c].status = "ok",
                                  ![c].resp = "token"]
  /\ UNCHANGED <<activityC, certVars, fabricVars, storeVars, nOps, committed>>

\* ----------------------------------------------------- Register (691-738)
\* Lines 692-705: the authorization value is compared with s.registerToken.
RegisterStart(c, b, ns) ==
  /\ call[c].pc = "idle"
  /\ nOps < MaxOps
  /\ nOps' = nOps + 1
  /\ call' = [call EXCEPT ![c] =
       LET r == [Begin(c, "Register", b) EXCEPT !.ns = ns]
       IN IF b = RegisterBearer
          THEN [r EXCEPT !.pc = "find"]
          ELSE [r EXCEPT !.pc = "done", !.status = "bad-auth"]]
  /\ UNCHANGED <<activityC, certVars, fabricVars, storeVars, committed,
                 minted>>

\* WHERE namespace LIKE reg.Namespace + "%": the records whose namespace
\* begins with the requested one.
NamespaceLike(ns) == {m \in managementClients : IsPrefix(ns, m.ns)}

\* Lines 709-716: First(&rec); any record found refuses the registration.
RegisterFind(c, fail) ==
  /\ At(c, "Register", "find")
  /\ call' =
       IF fail THEN Fail(c, "store-failure")
       ELSE IF NamespaceLike(call[c].ns) # {} THEN Fail(c, "in-use")
       ELSE [call EXCEPT ![c].pc = "create"]
  /\ UNCHANGED <<activityC, certVars, fabricVars, storeVars, nOps, committed,
                 minted>>

\* Lines 718-724: the record gets a fresh ULID and is inserted.
RegisterCreate(c, fail) ==
  /\ At(c, "Register", "create")
  /\ IF fail
     THEN /\ call' = Fail(c, "store-failure")
          /\ UNCHANGED managementClients
     ELSE /\ managementClients' = managementClients \cup
               {[id |-> call[c].id, ns |-> call[c].ns]}
          /\ call' = [call EXCEPT ![c].pc = "mint"]
  /\ UNCHANGED <<activityC, certVars, fabricVars, hubs, services, accounts,
                 labelLinks, nextId, nOps, committed, minted>>

\* Lines 726-737: a MANAGE token with ACCESS = namespace is signed.
RegisterMint(c, fail) ==
  /\ At(c, "Register", "mint")
  /\ IF fail
     THEN /\ call' = Fail(c, "upstream-failure")
          /\ UNCHANGED minted
     ELSE /\ minted' = minted \cup
               {[by |-> call[c].id, acct |-> 0, ns |-> call[c].ns,
                 caps |-> {Access(call[c].ns)}]}
          /\ call' = [call EXCEPT ![c].pc = "done", ![c].status = "ok",
                                  ![c].resp = "token"]
  /\ UNCHANGED <<activityC, certVars, fabricVars, storeVars, nOps, committed>>

\* ------------------------------------------ RequestServiceToken (971-996)
RequestServiceTokenStart(c, b, ns) ==
  /\ call[c].pc = "idle"
  /\ nOps < MaxOps
  /\ nOps' = nOps + 1
  /\ call' = [call EXCEPT ![c] =
       LET r == [Begin(c, "RequestServiceToken", b) EXCEPT
                   !.ns = ns, !.caps = {Access(ns), Connect}]
       IN IF checkFromHub(b) = "ok"
          THEN [r EXCEPT !.pc = "mint"]
          ELSE [r EXCEPT !.pc = "done", !.status = "bad-auth"]]
  /\ UNCHANGED <<activityC, certVars, fabricVars, storeVars, committed,
                 minted>>

RequestServiceTokenMint(c, fail) ==
  /\ At(c, "RequestServiceToken", "mint")
  /\ IF fail
     THEN /\ call' = Fail(c, "upstream-failure")
          /\ UNCHANGED minted
     ELSE /\ minted' = minted \cup
               {[by |-> call[c].id, acct |-> 0, ns |-> call[c].ns,
                 caps |-> call[c].caps]}
          /\ call' = [call EXCEPT ![c].pc = "done", ![c].status = "ok",
                                  ![c].resp = "token"]
  /\ UNCHANGED <<activityC, certVars, fabricVars, storeVars, nOps, committed>>

\* ---------------------------------------------- RemoveLabelLink (858-888)
RemoveLabelLinkStart(c, b, acct, ns, labels) ==
  /\ call[c].pc = "idle"
  /\ nOps < MaxOps
  /\ nOps' = nOps + 1
  /\ call' = [call EXCEPT ![c] =
       LET r == [Begin(c, "RemoveLabelLink", b) EXCEPT
                   !.acct = acct, !.ns = ns, !.labels = labels]
       IN IF checkMgmtAllowed(b) # "ok"
          THEN [r EXCEPT !.pc = "done", !.status = "bad-auth"]
          ELSE IF ~AllowAccount(b, ns)
          THEN [r EXCEPT !.pc = "done", !.status = "invalid-request"]
          ELSE [r EXCEPT !.pc = "delete"]]
  /\ UNCHANGED <<activityC, certVars, fabricVars, storeVars, committed,
                 minted>>

\* Lines 868-880: DELETE FROM label_links WHERE account_id = ? AND labels = ?.
RemoveLabelLinkDelete(c, fail) ==
  /\ At(c, "RemoveLabelLink", "delete")
  /\ IF fail
     THEN /\ call' = Fail(c, "store-failure")
          /\ UNCHANGED labelLinks
     ELSE /\ labelLinks' =
               {l \in labelLinks :
                  ~(l.acct = call[c].acct
                      /\ l.labels = FlattenLabels(call[c].labels))}
          /\ call' = [call EXCEPT ![c].pc = "links"]
  /\ UNCHANGED <<activityC, certVars, managementClients, fabricVars, hubs,
                 services, accounts, nextId, nOps, committed, minted>>

\* Lines 882-887: updateLabelLinks, whose error is the handler's.
RemoveLabelLinkLinks(c, fail) ==
  /\ At(c, "RemoveLabelLink", "links")
  /\ call' = [call EXCEPT ![c].pc = "done",
                          ![c].status = IF fail THEN "store-failure" ELSE "ok",
                          ![c].resp = IF fail THEN "none" ELSE "noop"]
  /\ UNCHANGED <<activityC, certVars, fabricVars, storeVars, nOps, committed,
                 minted>>

\* The handler has returned; the slot serves the next invocation.
CallReturn(c) ==
  /\ call[c].pc = "done"
  /\ call' = [call EXCEPT ![c] = IdleCall]
  /\ UNCHANGED <<activityC, certVars, fabricVars, storeVars, nOps, committed,
                 minted>>

\* ----------------------------------------- StartActivityReader (624-666)
\* An entry of a batch is the JSON text of an ActivityEntry, or text that
\* json.Unmarshal rejects.
Entry(route) == [json |-> "entry", route |-> route]
Malformed == [json |-> "garbage", route |-> 0]

\* Lines 645-656: the entries that unmarshal, in order, each as its
\* RouteAdded.
DecodeBatch(ev) ==
  LET good == SelectSeq(ev, LAMBDA e : e.json = "entry")
  IN [i \in 1..Len(good) |-> good[i].route]

\* Lines 624-630: NewActivityReader, and on success the goroutine starts.
StartActivityReader(c, fail) ==
  /\ call[c].pc = "idle"
  /\ nOps < MaxOps
  /\ nOps' = nOps + 1
  /\ call' = [call EXCEPT ![c] =
       LET r == Begin(c, "ActivityReader", AbsentBearer)
       IN IF fail
          THEN [r EXCEPT !.pc = "done", !.status = "upstream-failure"]
          ELSE [r EXCEPT !.pc = "select"]]
  /\ UNCHANGED <<activityC, certVars, fabricVars, storeVars, committed,
                 minted>>

\* The change feed offers a batch on ar.C.
ActivityOffer(ev) ==
  /\ activityC.offer = NoBatch /\ ~activityC.closed
  /\ activityC.n < MaxBatches
  /\ activityC' = [activityC EXCEPT !.offer = ev, !.n = @ + 1]
  /\ UNCHANGED <<call, certVars, fabricVars, storeVars, nOps, committed,
                 minted>>

\* The change feed closes ar.C.
ActivityClose ==
  /\ activityC.offer = NoBatch /\ ~activityC.closed
  /\ activityC' = [activityC EXCEPT !.closed = TRUE]
  /\ UNCHANGED <<call, certVars, fabricVars, storeVars, nOps, committed,
                 minted>>

\* The context given to StartActivityReader is cancelled.
ReaderCtxCancel(c) ==
  /\ call[c].op = "ActivityReader"
  /\ call[c].pc \in {"select", "rlock", "fanout"}
  /\ ~call[c].ctxDone
  /\ call' = [call EXCEPT ![c].ctxDone = TRUE]
  /\ UNCHANGED <<activityC, certVars, fabricVars, storeVars, nOps, committed,
                 minted>>

\* Lines 634-636: the select takes <-ctx.Done(); the goroutine returns.
ReaderStopCtx(c) ==
  /\ At(c, "ActivityReader", "select")
  /\ call[c].ctxDone
  /\ call' = [call EXCEPT ![c].pc = "stopped"]
  /\ UNCHANGED <<activityC, certVars, fabricVars, storeVars, nOps, committed,
                 minted>>

\* Lines 637-640: the receive from the closed channel yields !ok; the
\* goroutine returns.
ReaderStopClosed(c) ==
  /\ At(c, "ActivityReader", "select")
  /\ activityC.closed
  /\ call' = [call EXCEPT ![c].pc = "stopped"]
  /\ UNCHANGED <<activityC, certVars, fabricVars, storeVars, nOps, committed,
                 minted>>

\* A reader that would give up a batch at its first malformed entry.
ReaderRecvStrict(c) ==
  /\ At(c, "ActivityReader", "select")
  /\ activityC.offer # NoBatch
  /\ activityC' = [activityC EXCEPT !.offer = NoBatch]
  /\ call' = [call EXCEPT
       ![c].ev = activityC.offer,
       ![c].adds = IF \E i \in 1..Len(activityC.offer) :
                         activityC.offer[i].json # "entry"
                    THEN <<>> ELSE DecodeBatch(activityC.offer),
       ![c].nRecv = @ + 1,
       ![c].pc = ActivityReaderSteps[1]]
  /\ UNCHANGED <<certVars, fabricVars, storeVars, nOps, committed, minted>>

\* Lines 637-661: the select takes a batch from ar.C (whether or not the
\* context is done as well), decodes it and calls broadcastActivity.
ReaderRecv(c) ==
  /\ At(c, "ActivityReader", "select")
  /\ activityC.offer # NoBatch
  /\ activityC' = [activityC EXCEPT !.offer = NoBatch]
  /\ call' = [call EXCEPT
       ![c].ev = activityC.offer,
       ![c].adds = DecodeBatch(activityC.offer),
       ![c].nRecv = @ + 1,
       ![c].pc = ActivityReaderSteps[1]]
  /\ UNCHANGED <<certVars, fabricVars, storeVars, nOps, committed, minted>>

\* ------------------------------------------- CertStorage (pkg/data/bolt.go)
\* bolt.go 54-57: Lock(key) calls c.mu.Lock(); the caller waits for the mutex.
CertLockCall(p, key) ==
  /\ certCall[p].pc = "idle"
  /\ certCall' = [certCall EXCEPT ![p].pc = "lock", ![p].key = key]
  /\ UNCHANGED <<activityC, certStorage, fabricVars, call, storeVars, nOps,
                 committed, minted>>

\* A lock kept per key: callers of different keys would not wait.
CertLockAcquirePerKey(p) ==
  /\ certCall[p].pc = "lock"
  /\ ~\E q \in CertCallers :
        certCall[q].pc = "held" /\ certCall[q].key = certCall[p].key
  /\ certStorage' = [certStorage EXCEPT !.mu = TRUE]
  /\ certCall' = [certCall EXCEPT ![p].pc = "held"]
  /\ UNCHANGED <<activityC, fabricVars, call, storeVars, nOps, committed,
                 minted>>

\* bolt.go 55-56: c.mu.Lock() returns once the mutex, whatever the key, is
\* free; Lock returns nil.
CertLockAcquire(p) ==
  /\ certCall[p].pc = "lock"
  /\ ~certStorage.mu
  /\ certStorage' = [certStorage EXCEPT !.mu = TRUE]
  /\ certCall' = [certCall EXCEPT ![p].pc = "held"]
  /\ UNCHANGED <<activityC, fabricVars, call, storeVars, nOps, committed,
                 minted>>

\* bolt.go 63-66: Unlock(key), called after a successful Lock.
CertUnlock(p) ==
  /\ certCall[p].pc = "held"
  /\ certStorage' = [certStorage EXCEPT !.mu = FALSE]
  /\ certCall' = [certCall EXCEPT ![p].pc = "idle", ![p].key = <<>>]
  /\ UNCHANGED <<activityC, fabricVars, call, storeVars, nOps, committed,
                 minted>>

\* bolt.go 69-87: Store puts the marshalled time followed by the value
\* (TimeHeader stands for the 15 bytes of the time).
CertStore(p, key, value) ==
  /\ certCall[p].pc \in {"idle", "held"}
  /\ certStorage' = [certStorage EXCEPT !.certs =
       {e \in @ : e.k # key} \cup {[k |-> key, v |-> <<TimeHeader>> \o value]}]
  /\ UNCHANGED <<activityC, certCall, fabricVars, call, storeVars, nOps,
                 committed, minted>>

\* bytes.Count(k, "/").
CountSlash(k) == Cardinality({i \in 1..Len(k) : k[i] = Slash})

\* The byte order of keys, in which a bucket's ForEach visits them.
RECURSIVE KeyLess(_, _)
KeyLess(a, b) ==
  IF a = <<>> THEN b # <<>>
  ELSE IF b = <<>> THEN FALSE
  ELSE IF Head(a) # Head(b) THEN Head(a) < Head(b)
  ELSE KeyLess(Tail(a), Tail(b))

\* bolt.go 160-170: the ForEach callback over the entries in key order.
RECURSIVE ListForEach(_, _, _)
ListForEach(entries, prefix, recursive) ==
  IF entries = {} THEN <<>>
  ELSE LET e == CHOOSE x \in entries :
                  \A y \in entries : y = x \/ KeyLess(x.k, y.k)
           rest == ListForEach(entries \ {e}, prefix, recursive)
       IN IF ~recursive /\ CountSlash(e.k) > 1 THEN rest
          ELSE IF IsPrefix(prefix, e.k) THEN <<e.v>> \o rest
          ELSE rest

\* bolt.go 148-174: List(prefix, recursive) in one read transaction.
CertList(p, prefix, recursive) ==
  /\ certCall[p].pc \in {"idle", "held"}
  /\ certCall' = [certCall EXCEPT
       ![p].listed = TRUE, ![p].prefix = prefix, ![p].recursive = recursive,
       ![p].matches = ListForEach(certStorage.certs, prefix, recursive)]
  /\ UNCHANGED <<activityC, certStorage, fabricVars, call, storeVars, nOps,
                 committed, minted>>

\* ------------------------------------------------- the session fabric
StreamBearers == {HubBearer}
Frames ==
  {[kind |-> "err", hub |-> 0], [kind |-> "noreg", hub |-> 0]}
    \cup {[kind |-> "reg", hub |-> k] : k \in HubKeys}

StreamStep(s) ==
  \/ \E b \in StreamBearers : StreamOpen(s, b)
  \/ \E f \in Frames : StreamRecvFirst(s, f)
  \/ StreamLock(s)
  \/ StreamRegister(s)
  \/ SenderCtxDone(s)
  \/ \E ok \in BOOLEAN : SenderSend(s, ok)
  \/ StreamDeregister(s)
  \/ Drain(s)

BroadcastStep(c) ==
  \/ BroadcastRLock(c)
  \/ \E s \in Streams : Deliver(c, s)
  \/ BroadcastAbort(c)
  \/ BroadcastReturn(c)

PublishStep(c) ==
  \/ AddServiceStart(c, HubBearer, 1, 1, 1)
  \/ AddServiceCreate(c, FALSE)
  \/ AddServiceRouting(c, FALSE)

Environment ==
  \/ \E s \in Streams : StreamCtxCancel(s)
  \/ \E c \in Calls : CallCtxCancel(c)

Next ==
  \/ \E s \in Streams : StreamStep(s)
  \/ \E c \in Calls : BroadcastStep(c)
  \/ \E c \in Calls : PublishStep(c)
  \/ Environment

Spec == Init /\ [][Next]_vars


\* ------------------------------------- publishing RPCs and one session
\* AddService and AddLabelLink, with their store failures, beside the
\* sessions of the first hub key.
PublishFrames == {f \in Frames : f.hub <= 1}

PublishStreamStep(s) ==
  \/ StreamOpen(s, HubBearer)
  \/ \E f \in PublishFrames : StreamRecvFirst(s, f)
  \/ StreamLock(s)
  \/ StreamRegister(s)
  \/ SenderCtxDone(s)
  \/ \E ok \in BOOLEAN : SenderSend(s, ok)
  \/ StreamDeregister(s)
  \/ Drain(s)

PublishCallStep(c) ==
  \/ AddServiceStart(c, HubBearer, 1, 1, 1)
  \/ \E fail \in BOOLEAN : AddServiceCreate(c, fail)
  \/ \E fail \in BOOLEAN : AddServiceRouting(c, fail)
  \/ AddLabelLinkStart(c, ManageBearer(<<1>>, <<1>>), 1, <<1>>, <<2, 1>>, <<1>>)
  \/ \E fail \in BOOLEAN : AddLabelLinkUpsert(c, fail)
  \/ \E fail \in BOOLEAN : AddLabelLinkCreate(c, fail)
  \/ \E fail \in BOOLEAN : AddLabelLinkLinks(c, fail)

PublishNext ==
  \/ \E s \in Streams : PublishStreamStep(s)
  \/ \E c \in Calls : BroadcastStep(c)
  \/ \E c \in Calls : PublishCallStep(c)
  \/ Environment

PublishSpec == Init /\ [][PublishNext]_vars

\* ------------------------------------------- fan-out to two sessions
\* The four routing RPCs, none failing in the store, beside two sessions
\* that register under their own hub keys.
FanoutStreamStep(s) ==
  \/ StreamOpen(s, HubBearer)
  \/ StreamRecvFirst(s, [kind |-> "reg", hub |-> s])
  \/ StreamLock(s)
  \/ StreamRegister(s)
  \/ SenderCtxDone(s)
  \/ \E ok \in BOOLEAN : SenderSend(s, ok)
  \/ StreamDeregister(s)
  \/ Drain(s)

FanoutCallStep(c) ==
  \/ AddServiceStart(c, HubBearer, 1, 1, 1)
  \/ AddServiceCreate(c, FALSE)
  \/ AddServiceRouting(c, FALSE)
  \/ RemoveServiceStart(c, HubBearer, 1, 1)
  \/ RemoveServiceDelete(c, FALSE)
  \/ RemoveServiceRouting(c, FALSE)
  \/ AddLabelLinkStart(c, ManageBearer(<<1>>, <<1>>), 1, <<1>>, <<2, 1>>, <<1>>)
  \/ AddLabelLinkUpsert(c, FALSE)
  \/ AddLabelLinkCreate(c, FALSE)
  \/ AddLabelLinkLinks(c, FALSE)
  \/ RemoveLabelLinkStart(c, ManageBearer(<<1>>, <<1>>), 1, <<1>>, <<1, 2>>)
  \/ RemoveLabelLinkDelete(c, FALSE)
  \/ RemoveLabelLinkLinks(c, FALSE)

FanoutNext ==
  \/ \E s \in Streams : FanoutStreamStep(s)
  \/ \E c \in Calls : BroadcastStep(c)
  \/ \E c \in Calls : FanoutCallStep(c)
  \/ Environment

FanoutSpec == Init /\ [][FanoutNext]_vars

\* ------------------------------------------------- the registry store
\* The hub RPCs on the store, several at a time, with no session connected.
Outcomes == {"ok", "find-failed", "delete-failed", "routing-failed"}

StoreCallStep(c) ==
  \/ \E I \in Instances, loc \in {1} : FetchConfigStart(c, HubBearer, 1, I, loc)
  \/ FetchConfigBegin(c)
  \/ FetchConfigFindFailed(c)
  \/ \E fail \in BOOLEAN : FetchConfigInsert(c, fail)
  \/ \E fail \in BOOLEAN : FetchConfigRemove(c, fail)
  \/ \E fail \in BOOLEAN : FetchConfigUpdate(c, fail)
  \/ \E fail \in BOOLEAN : FetchConfigCommit(c, fail)
  \/ \E I \in Instances, svc \in SvcIds : AddServiceStart(c, HubBearer, 1, I, svc)
  \/ \E fail \in BOOLEAN : AddServiceCreate(c, fail)
  \/ \E fail \in BOOLEAN : AddServiceRouting(c, fail)
  \/ \E svc \in SvcIds : RemoveServiceStart(c, HubBearer, 1, svc)
  \/ \E fail \in BOOLEAN : RemoveServiceDelete(c, fail)
  \/ \E fail \in BOOLEAN : RemoveServiceRouting(c, fail)
  \/ \E I \in Instances : HubDisconnectStart(c, HubBearer, 1, I)
  \/ \E o \in Outcomes : HubDisconnectRemove(c, o)
  \/ \E fail \in BOOLEAN : HubDisconnectHubDelete(c, fail)
  \/ AllHubsStart(c, HubBearer)
  \/ \E fail \in BOOLEAN : AllHubsFind(c, fail)
  \/ BroadcastRLock(c)
  \/ BroadcastReturn(c)
  \/ CallReturn(c)

StoreNext == \E c \in Calls : StoreCallStep(c)

StoreSpec == Init /\ [][StoreNext]_vars

\* ------------------------------------------- management registration
\* Register calls, several at a time, with and without the register-token.
RegisterNamespaces == {<<1>>, <<1, 2>>, <<2>>}

RegisterCallStep(c) ==
  \/ \E b \in {RegisterBearer, AbsentBearer, HubBearer} :
       \E ns \in RegisterNamespaces : RegisterStart(c, b, ns)
  \/ \E fail \in BOOLEAN : RegisterFind(c, fail)
  \/ \E fail \in BOOLEAN : RegisterCreate(c, fail)
  \/ \E fail \in BOOLEAN : RegisterMint(c, fail)
  \/ CallReturn(c)

RegisterNext == \E c \in Calls : RegisterCallStep(c)

RegisterSpec == Init /\ [][RegisterNext]_vars

\* ------------------------------------------- accounts and label links
\* The RPCs that name an account, several at a time, with store failures
\* and with the labels of a link given in either order.
AccountIds == {1, 2}
LinkLabels == {<<1, 2>>, <<2, 1>>}
AccountBearer == ManageBearer(<<1>>, <<1>>)

AccountCallStep(c) ==
  \/ \E a \in AccountIds : AddServiceStart(c, HubBearer, a, 1, 1)
  \/ \E fail \in BOOLEAN : AddServiceCreate(c, fail)
  \/ \E fail \in BOOLEAN : AddServiceRouting(c, fail)
  \/ \E a \in AccountIds, ls \in LinkLabels :
       AddLabelLinkStart(c, AccountBearer, a, <<1>>, ls, <<1>>)
  \/ \E fail \in BOOLEAN : AddLabelLinkUpsert(c, fail)
  \/ \E fail \in BOOLEAN : AddLabelLinkCreate(c, fail)
  \/ \E fail \in BOOLEAN : AddLabelLinkLinks(c, fail)
  \/ \E a \in AccountIds, ls \in LinkLabels :
       RemoveLabelLinkStart(c, AccountBearer, a, <<1>>, ls)
  \/ \E fail \in BOOLEAN : RemoveLabelLinkDelete(c, fail)
  \/ \E fail \in BOOLEAN : RemoveLabelLinkLinks(c, fail)
  \/ \E a \in AccountIds, ns \in {<<1>>, <<1, 2>>} :
       CreateTokenStart(c, AccountBearer, a, ns, {})
  \/ \E fail \in BOOLEAN : CreateTokenUpsert(c, fail)
  \/ \E fail \in BOOLEAN : CreateTokenMint(c, fail)
  \/ BroadcastRLock(c)
  \/ BroadcastReturn(c)
  \/ CallReturn(c)

AccountNext == \E c \in Calls : AccountCallStep(c)

AccountSpec == Init /\ [][AccountNext]_vars

\* ------------------------------------------------ sessions and telemetry
\* Two sessions under their own hub keys; their receivers take Flow batches
\* or an inbound error, their senders run or end.
FlowBatches ==
  {<<StreamRecord(3, 100), StreamRecord(5, 200)>>,
   <<StreamRecord(5, 200), AgentRecord(7)>>,
   <<AgentRecord(7), HubStatsRecord(9)>>,
   <<StreamRecord(3, 100)>>, <<>>}

FlowStreamStep(s) ==
  \/ StreamOpen(s, HubBearer)
  \/ StreamRecvFirst(s, [kind |-> "reg", hub |-> s])
  \/ StreamLock(s)
  \/ StreamRegister(s)
  \/ \E flows \in FlowBatches : ReceiverRecvFlows(s, flows)
  \/ ReceiverAddMessages(s)
  \/ ReceiverAddBytes(s)
  \/ ReceiverRecvErr(s)
  \/ SenderCtxDone(s)
  \/ StreamDeregister(s)
  \/ Drain(s)

FlowNext ==
  \/ \E s \in Streams : FlowStreamStep(s)
  \/ \E s \in Streams : StreamCtxCancel(s)

FlowSpec == Init /\ [][FlowNext]_vars

\* The goroutines of every session run whenever they can; nothing makes the
\* transport cancel a stream's context.
FlowFairness == \A s \in Streams : WF_vars(FlowStreamStep(s))

FairFlowSpec == Init /\ [][FlowNext]_vars /\ FlowFairness

\* ------------------------------------------------ the certificate store
\* Callers of one CertStorage lock, store and unlock.
CertKeys == {<<97>>, <<97, Slash, 98>>, <<97, Slash, 98, Slash, 99>>, <<98>>}
CertPrefixes == {<<>>, <<97>>, <<97, Slash>>, <<97, Slash, 98>>}
CertValues == {<<7>>, <<97>>}

CertStep(p) ==
  \/ \E key \in CertKeys : CertLockCall(p, key)
  \/ CertLockAcquire(p)
  \/ CertUnlock(p)
  \/ \E key \in CertKeys, value \in CertValues : CertStore(p, key, value)

CertNext == \E p \in CertCallers : CertStep(p)

CertSpec == Init /\ [][CertNext]_vars

\* One caller stores entries and lists them.
ListNext ==
  \/ \E key \in CertKeys, value \in CertValues : CertStore(1, key, value)
  \/ \E prefix \in CertPrefixes, recursive \in BOOLEAN :
       CertList(1, prefix, recursive)

ListSpec == Init /\ [][ListNext]_vars

\* ------------------------------------------------------ hub check-ins
\* FetchConfig calls of two hubs, with new and unchanged instances and
\* locations, beside AddService calls.
CheckinStables == {1, 2}
CheckinLocations == {1, 2}

CheckinCallStep(c) ==
  \/ \E S \in CheckinStables, I \in Instances, loc \in CheckinLocations :
       FetchConfigStart(c, HubBearer, S, I, loc)
  \/ FetchConfigBegin(c)
  \/ FetchConfigFindFailed(c)
  \/ \E fail \in BOOLEAN : FetchConfigInsert(c, fail)
  \/ \E fail \in BOOLEAN : FetchConfigRemove(c, fail)
  \/ \E fail \in BOOLEAN : FetchConfigUpdate(c, fail)
  \/ \E fail \in BOOLEAN : FetchConfigCommit(c, fail)
  \/ \E I \in Instances : AddServiceStart(c, HubBearer, 1, I, 1)
  \/ AddServiceCreate(c, FALSE)
  \/ AddServiceRouting(c, FALSE)
  \/ BroadcastRLock(c)
  \/ BroadcastReturn(c)
  \/ CallReturn(c)

CheckinNext == \E c \in Calls : CheckinCallStep(c)

CheckinSpec == Init /\ [][CheckinNext]_vars

\* ---------------------------------------------------- the activity reader
\* The reader of one replica beside two sessions under their own hub keys.
ActivityBatches ==
  {<<Entry(1), Entry(2)>>, <<Entry(2), Malformed, Entry(1)>>, <<Malformed>>}

ReaderStreamStep(s) ==
  \/ StreamOpen(s, HubBearer)
  \/ StreamRecvFirst(s, [kind |-> "reg", hub |-> s])
  \/ StreamLock(s)
  \/ StreamRegister(s)
  \/ SenderSend(s, TRUE)

ReaderStep(c) ==
  \/ \E fail \in BOOLEAN : StartActivityReader(c, fail)
  \/ ReaderRecv(c)
  \/ ReaderStopCtx(c)
  \/ ReaderStopClosed(c)
  \/ BroadcastStep(c)

ReaderNext ==
  \/ \E s \in Streams : ReaderStreamStep(s)
  \/ ReaderStep(1)
  \/ \E ev \in ActivityBatches : ActivityOffer(ev)
  \/ ActivityClose
  \/ ReaderCtxCancel(1)

ReaderSpec == Init /\ [][ReaderNext]_vars

\* --------------------------------------------- the RPCs and their bearers
\* One caller after another invokes the RPCs with every kind of bearer.
AuthBearers ==
  {AbsentBearer, MalformedBearer, ExpiredBearer, HubBearer,
   ManageBearer(<<1>>, <<1>>), ManageBearer(<<1>>, <<2>>)}
AuthNamespaces == {<<>>, <<1, 2>>, <<2>>}
AuthCaps == {{}, {Access(<<1, 2>>)}, {Access(<<2>>), Connect}}

AuthCallStep(c) ==
  \/ \E b \in AuthBearers : FetchConfigStart(c, b, 1, 1, 1)
  \/ FetchConfigBegin(c)
  \/ FetchConfigInsert(c, FALSE)
  \/ FetchConfigUpdate(c, FALSE)
  \/ FetchConfigCommit(c, FALSE)
  \/ \E b \in AuthBearers : AddServiceStart(c, b, 1, 1, 1)
  \/ AddServiceCreate(c, FALSE)
  \/ AddServiceRouting(c, FALSE)
  \/ \E b \in AuthBearers : RemoveServiceStart(c, b, 1, 1)
  \/ RemoveServiceDelete(c, FALSE)
  \/ RemoveServiceRouting(c, FALSE)
  \/ \E b \in AuthBearers : HubDisconnectStart(c, b, 1, 1)
  \/ HubDisconnectRemove(c, "ok")
  \/ HubDisconnectHubDelete(c, FALSE)
  \/ \E b \in AuthBearers : AllHubsStart(c, b)
  \/ AllHubsFind(c, FALSE)
  \/ \E b \in AuthBearers : RequestServiceTokenStart(c, b, <<1>>)
  \/ \E fail \in BOOLEAN : RequestServiceTokenMint(c, fail)
  \/ \E b \in AuthBearers, ns \in AuthNamespaces :
       AddLabelLinkStart(c, b, 1, ns, <<2, 1>>, <<1>>)
  \/ \E fail \in BOOLEAN : AddLabelLinkUpsert(c, fail)
  \/ \E fail \in BOOLEAN : AddLabelLinkCreate(c, fail)
  \/ AddLabelLinkLinks(c, FALSE)
  \/ \E b \in AuthBearers, ns \in AuthNamespaces :
       RemoveLabelLinkStart(c, b, 1, ns, <<1, 2>>)
  \/ \E fail \in BOOLEAN : RemoveLabelLinkDelete(c, fail)
  \/ RemoveLabelLinkLinks(c, FALSE)
  \/ \E b \in AuthBearers, ns \in AuthNamespaces, caps \in AuthCaps :
       CreateTokenStart(c, b, 1, ns, caps)
  \/ \E fail \in BOOLEAN : CreateTokenUpsert(c, fail)
  \/ \E fail \in BOOLEAN : CreateTokenMint(c, fail)
  \/ BroadcastRLock(c)
  \/ BroadcastReturn(c)
  \/ CallReturn(c)

AuthStreamStep(s) ==
  \/ \E b \in AuthBearers : StreamOpen(s, b)
  \/ \E f \in Frames : StreamRecvFirst(s, f)
  \/ StreamLock(s)
  \/ StreamRegister(s)
  \/ ReceiverRecvErr(s)

AuthNext ==
  \/ \E c \in {1} : AuthCallStep(c)
  \/ \E s \in {1} : AuthStreamStep(s)

AuthSpec == Init /\ [][AuthNext]_vars

\* The goroutines of the server run whenever they can: every session's
\* handler and every RPC's handler takes its next step if that step stays
\* possible.  Nothing makes a client cancel a context.
Fairness ==
  /\ \A s \in Streams : WF_vars(StreamStep(s))
  /\ \A c \in Calls : WF_vars(BroadcastStep(c))
  /\ \A c \in Calls : WF_vars(PublishStep(c))

FairSpec == Init /\ [][Next]_vars /\ Fairness

\* ---------------------------------------------------------------- claims
SenderExited(s) == stream[s].pc \in {"tdLock", "tdWait", "drain", "returned"}

\* C1: a broadcaster blocked on the outbound queue of a session whose sender
\* loop has exited eventually gets past that session, also when the
\* broadcaster's own context is never cancelled.
C1_NoBroadcasterBlockedForever ==
  \A c \in Calls : \A s \in Streams :
    (BlockedOn(c, s) /\ SenderExited(s)) ~> ~BlockedOn(c, s)

\* C2: once a registered session's sender loop has exited and its teardown
\* has removed it from the registry, the drain ends and StreamActivity
\* returns to its caller.
C2_TeardownTerminates ==
  \A s \in Streams : (stream[s].pc = "drain") ~> (stream[s].pc = "returned")

\* C3: per session, the deltas passed to stream.Send are the deltas the
\* sender took from the outbound queue, in the same order, each once; at
\* most the delta in flight is still to be sent.
C3_FifoPerSession ==
  \A s \in Streams :
    /\ IsPrefix(sent[s], handed[s])
    /\ Len(handed[s]) - Len(sent[s]) <= 1
    /\ stream[s].pc = "send" => handed[s] = Append(sent[s], stream[s].act)
    /\ \A i, j \in 1..Len(sent[s]) : i # j => sent[s][i] # sent[s][j]

C3_Witness ==
  \E s \in Streams :
    /\ Len(sent[s]) = 2
    /\ sent[s][1].bid # sent[s][2].bid

\* C10: a stream whose first frame carries no HubReg returns nil; the step
\* leaves the registry as it was, the stream is never installed in it, and
\* neither its receiver nor its sender ever runs.
C10_NoRegistrationNoSession ==
  /\ [](\A s \in Streams : stream[s].first = "noreg" =>
          /\ stream[s].pc = "returned" /\ stream[s].ret = "nil"
          /\ s \notin RegisteredSessions
          /\ mu.pending # s
          /\ stream[s].rcv = "none"
          /\ handed[s] = <<>> /\ sent[s] = <<>> /\ drained[s] = {})
  /\ [][\A s \in Streams :
          (stream[s].first # "noreg" /\ stream'[s].first = "noreg")
            => connectedHubs' = connectedHubs]_vars

C10_Witness ==
  \E s, r \in Streams :
    /\ stream[s].first = "noreg"
    /\ stream[r].pc = "loop"
    /\ connectedHubs[stream[r].key] = r


\* C4: every delta on a session (taken by its sender, passed to stream.Send
\* or consumed by its drain) describes a Service or LabelLink row that the
\* publishing call had committed before, and a call that is handing its
\* delta to the outbound queues has committed its row.
DeltaCommitted(d) == [bid |-> d.bid, row |-> RowOf(d.desc)] \in committed

C4_CommitBeforeBroadcast ==
  /\ \A s \in Streams :
       /\ \A i \in 1..Len(handed[s]) : DeltaCommitted(handed[s][i])
       /\ \A d \in drained[s] : DeltaCommitted(d)
       /\ stream[s].pc = "send" => DeltaCommitted(stream[s].act)
  /\ \A c \in Calls : Broadcasting(c) => DeltaCommitted(Delta(c))
  /\ \A x \in committed :
       IF x.row[1] = "svc"
       THEN \E r \in services :
              <<r.acct, r.hub, r.svc>> = <<x.row[2], x.row[3], x.row[4]>>
       ELSE \E r \in labelLinks :
              <<r.acct, r.labels, r.target>> = <<x.row[2], x.row[3], x.row[4]>>

C4_Witness ==
  \E s \in Streams :
    /\ Len(sent[s]) = 2
    /\ {sent[s][1].desc[1], sent[s][2].desc[1]} = {"svc", "link"}


\* A FetchConfig transaction that found the Hub row with another instance.
Rotating(c) ==
  /\ call[c].op = "FetchConfig"
  /\ call[c].hr # NoHub
  /\ call[c].hr.instance # call[c].hub

\* C5: the commit of a rotating FetchConfig(S, I') leaves no Service row of
\* the previous instance I and leaves the Hub row of S with instance I'; a
\* step rotates the Hub row exactly when it removes the services of I.
C5_InstanceRotation ==
  /\ [][\A c \in Calls :
          (Rotating(c) /\ call[c].pc = "commit" /\ call'[c].status = "ok")
            => /\ \A r \in services' : r.hub # call[c].hr.instance
               /\ HubRow(call[c].stable)'.instance = call[c].hub]_vars
  /\ [][\A c \in Calls :
          (call[c].op = "FetchConfig" /\ call'[c] # call[c]
             /\ services' # services)
            => HubRow(call[c].stable)'.instance # HubRow(call[c].stable).instance]_vars

Authenticated(c) == call[c].pc # "idle" /\ call[c].status # "bad-auth"

\* C8: a HubDisconnect whose service deletion failed and whose Hub-row
\* deletion succeeded returns a composite error that holds the
\* service-deletion cause.
C8_DisconnectReportsServiceFailure ==
  \A c \in Calls :
    (call[c].op = "HubDisconnect" /\ call[c].pc = "done" /\ Authenticated(c)
       /\ call[c].serr = "failed" /\ call[c].herr = "nil")
      => (call[c].status = "composite" /\ "services" \in call[c].err)

\* C9: after the attempt to remove the services of I, failed or not, an
\* authenticated HubDisconnect goes on to delete the Hub row of S; when that
\* delete works no Hub row of S is left for AllHubs to list; and when the
\* service deletion works no Service row with hub_id = I is left.
C9_DisconnectNeverShortCircuits ==
  /\ [](\A c \in Calls :
          (call[c].op = "HubDisconnect" /\ call[c].pc = "done"
             /\ Authenticated(c)) => call[c].herr # "none")
  /\ [][\A c \in Calls :
          (At(c, "HubDisconnect", "remove") /\ call'[c] # call[c])
            => /\ call'[c].pc = "hubDelete"
               /\ call'[c].serr = "nil"
                    => \A r \in services' : r.hub # call[c].hub]_vars
  /\ [][\A c \in Calls :
          (At(c, "HubDisconnect", "hubDelete") /\ call'[c].herr = "nil")
            => HubRow(call[c].stable)' = NoHub]_vars

C9_Witness ==
  \E c, d \in Calls :
    /\ call[d].op = "FetchConfig" /\ call[d].status = "ok"
    /\ call[c].op = "HubDisconnect" /\ call[c].pc = "done"
    /\ call[c].stable = call[d].stable /\ call[c].id > call[d].id
    /\ call[c].serr = "failed" /\ call[c].herr = "nil"
    /\ HubRow(call[c].stable) = NoHub


GatedOps ==
  {"FetchConfig", "AddService", "RemoveService", "HubDisconnect",
   "RequestServiceToken", "AddLabelLink", "RemoveLabelLink", "CreateToken",
   "AllHubs"}

RequiredRoles(op) ==
  IF op \in {"AddLabelLink", "RemoveLabelLink", "CreateToken"} THEN {"MANAGE"}
  ELSE IF op = "AllHubs" THEN {"HUB", "MANAGE"}
  ELSE {"HUB"}

\* The bearer is absent, malformed, expired, or of a role the RPC does not
\* accept.
BadBearer(op, b) == b.kind # "valid" \/ b.role \notin RequiredRoles(op)

\* C6: an RPC other than Register and IssueHubToken that is invoked with a
\* bad bearer has failed with bad-authentication and returned no data, and
\* no step of it changes the store, the registry or the tokens signed.
C6_AuthGating ==
  /\ [](\A c \in Calls :
          (call[c].op \in GatedOps /\ BadBearer(call[c].op, call[c].bearer))
            => /\ call[c].pc = "done"
               /\ call[c].status = "bad-auth"
               /\ call[c].resp = "none")
  /\ [](\A s \in Streams :
          (stream[s].pc # "idle"
             /\ BadBearer("StreamActivity", stream[s].bearer))
            => /\ stream[s].pc = "returned" /\ stream[s].ret = "err"
               /\ s \notin RegisteredSessions)
  /\ [][\A c \in Calls :
          (call'[c] # call[c] /\ call'[c].op \in GatedOps
             /\ BadBearer(call'[c].op, call'[c].bearer))
            => UNCHANGED <<storeVars, connectedHubs, minted>>]_vars

NamespaceOps == {"CreateToken", "AddLabelLink", "RemoveLabelLink"}

\* The namespace the request names, and for CreateToken every requested
\* ACCESS capability, has the caller token's namespace as a prefix.
Contained(r) ==
  /\ IsPrefix(r.bearer.access, r.ns)
  /\ r.op = "CreateToken" =>
       \A k \in r.caps : k.cap = "ACCESS" => IsPrefix(r.bearer.access, k.value)

ByManager(r) == r.op \in NamespaceOps /\ checkMgmtAllowed(r.bearer) = "ok"

\* C7: a CreateToken, AddLabelLink or RemoveLabelLink made with a MANAGE
\* token succeeds only within the token's namespace; outside it the RPC has
\* returned invalid-request, and no step of it writes an Account or
\* LabelLink row or signs a token.
C7_NamespaceContainment ==
  /\ [](\A c \in Calls : ByManager(call[c]) =>
          /\ call[c].status = "ok" => Contained(call[c])
          /\ ~Contained(call[c]) =>
               /\ call[c].pc = "done"
               /\ call[c].status = "invalid-request"
               /\ call[c].resp = "none")
  /\ [][\A c \in Calls :
          (call'[c] # call[c] /\ ByManager(call'[c]) /\ ~Contained(call'[c]))
            => UNCHANGED <<accounts, labelLinks, minted>>]_vars
  /\ [](\A m \in minted : \A c \in Calls :
          (call[c].id = m.by /\ call[c].op = "CreateToken") => Contained(call[c]))

C7_Witness ==
  \E c \in Calls :
    /\ call[c].op = "CreateToken" /\ call[c].status = "ok"
    /\ Access(<<1, 2>>) \in call[c].caps
    /\ \E m \in minted : m.by = call[c].id
    /\ \E a \in accounts : a.ns = <<1, 2>>
    /\ labelLinks # {}

\* The number of times delta d occurs in a sequence of deltas.
Occurrences(seq, d) == Cardinality({i \in 1..Len(seq) : seq[i] = d})

\* C11: a fan-out blocks rather than drops.  While a broadcaster ranges
\* over the registry every registered session it has passed holds its delta
\* exactly once and the others not yet; so a broadcastActivity that returns
\* nil has handed its delta exactly once to every registered session.
C11_BroadcastReachesAll ==
  /\ [](\A c \in Calls : Broadcasting(c) =>
          \A s \in RegisteredSessions :
            Occurrences(handed[s], Delta(c)) =
              IF s \in call[c].todo \cup {call[c].cur} THEN 0 ELSE 1)
  /\ [][\A c \in Calls :
          (Broadcasting(c) /\ call'[c].berr = "nil" /\ ~Broadcasting(c)')
            => \A s \in RegisteredSessions :
                 Occurrences(handed[s], Delta(c)) = 1]_vars

\* Two hubs stream under their own keys and an AddLabelLink's fan-out has
\* returned nil: both sessions hold its delta.
C11_Witness ==
  \E c \in Calls :
    /\ call[c].op = "AddLabelLink" /\ call[c].pc = "links"
    /\ call[c].berr = "nil"
    /\ connectedHubs[1] # 0 /\ connectedHubs[2] # 0
    /\ connectedHubs[1] # connectedHubs[2]
    /\ \A s \in RegisteredSessions : Occurrences(handed[s], Delta(c)) = 1

\* C12: a fan-out whose caller is cancelled while it is blocked on a
\* session's queue can always abort; the step that aborts it returns the
\* cancellation error, hands nothing over and releases the registry read
\* lock, and its delta reaches no further session afterwards.
C12_BroadcastCancellation ==
  /\ [](\A c \in Calls :
          (Broadcasting(c) /\ call[c].cur # 0 /\ call[c].ctxDone)
            => ENABLED BroadcastAbort(c))
  /\ [](\A c \in Calls : call[c].berr = "cancelled" =>
          call[c].ctxDone /\ ~Broadcasting(c) /\ c \notin mu.readers)
  /\ [][\A c \in Calls :
          (call[c].berr # "cancelled" /\ call'[c].berr = "cancelled")
            => /\ Broadcasting(c) /\ call[c].cur # 0
               /\ handed' = handed /\ stream' = stream
               /\ mu'.readers = mu.readers \ {c}]_vars
  /\ [][\A c \in Calls :
          (call[c].berr = "cancelled" /\ call'[c].id = call[c].id)
            => \A s \in Streams :
                 Occurrences(handed'[s], Delta(c)) =
                   Occurrences(handed[s], Delta(c))]_vars

\* A cancelled fan-out has returned, a registered session never got its
\* delta, and a registry writer has since taken the lock and left.
C12_Witness ==
  \E c \in Calls : \E s \in Streams :
    /\ call[c].berr = "cancelled"
    /\ s \in RegisteredSessions
    /\ Occurrences(handed[s], Delta(c)) = 0
    /\ \E s2 \in Streams : stream[s2].pc = "drain"
    /\ mu.readers = {} /\ mu.pending = 0

RoutingMutations ==
  {"AddService", "RemoveService", "AddLabelLink", "RemoveLabelLink"}

\* C13: every routing mutation that succeeds has run a fan-out of its delta:
\* an AddService, RemoveService, AddLabelLink or RemoveLabelLink that
\* returned success went through broadcastActivity on the way.
C13_MutationsAreBroadcast ==
  \A c \in Calls :
    (call[c].op \in RoutingMutations /\ call[c].status = "ok")
      => call[c].berr # "none"

\* C14: management namespaces are unique by prefix.  No two ManagementClient
\* records have equal namespaces or namespaces of which one is a prefix of
\* the other.
C14_NamespacesUniqueByPrefix ==
  \A m1 \in managementClients : \A m2 \in managementClients :
    m1 # m2 => ~IsPrefix(m1.ns, m2.ns)

\* The set of labels of a flattened label string.
LabelSet(labels) == {labels[i] : i \in 1..Len(labels)}

AccountNamingOps == {"AddService", "AddLabelLink", "CreateToken"}

\* C16: every operation that names an account upserts it.  After a
\* successful AddService, AddLabelLink or CreateToken the Account row of the
\* named account exists (for AddService already when the Service row is
\* inserted), and no account id has two rows.
C16_AccountsUpserted ==
  /\ \A c \in Calls :
       (call[c].op \in AccountNamingOps /\ call[c].status = "ok")
         => \E a \in accounts : a.id = call[c].acct
  /\ \A r \in services : \E a \in accounts : a.id = r.acct
  /\ \A a1 \in accounts : \A a2 \in accounts : a1.id = a2.id => a1 = a2

\* The sum of field f over the Stream records of a batch.
RECURSIVE StreamSum(_, _)
StreamSum(flows, f) ==
  IF flows = <<>> THEN 0
  ELSE (IF Head(flows).kind = "stream" THEN Head(flows)[f] ELSE 0)
         + StreamSum(Tail(flows), f)

\* C17: a session's messages counter changes only in the one addition that
\* ends the processing of one of its own batches, by the sum of num_messages
\* of the batch's Stream records, and its bytes counter likewise by the sum
\* of their num_bytes; a batch of Agent and HubStats records adds zero.
C17_FlowAccounting ==
  [][\A s \in Streams :
       /\ stream'[s].messages # stream[s].messages
            => /\ stream[s].rcv = "addMessages"
               /\ stream'[s].messages =
                    stream[s].messages + StreamSum(stream[s].flows, "msgs")
       /\ stream'[s].bytes # stream[s].bytes
            => /\ stream[s].rcv = "addBytes"
               /\ stream'[s].bytes =
                    stream[s].bytes + StreamSum(stream[s].flows, "bytes")
       /\ (stream[s].rcv = "addMessages" /\ stream'[s].rcv = "addBytes")
            => stream'[s].messages =
                 stream[s].messages + StreamSum(stream[s].flows, "msgs")
       /\ (stream[s].rcv = "addBytes" /\ stream'[s].rcv = "running")
            => stream'[s].bytes =
                 stream[s].bytes + StreamSum(stream[s].flows, "bytes")]_vars

\* One session has processed the batch (3,100),(5,200) and then a batch
\* without Stream records, the other a different batch.
C17_Witness ==
  \E s \in Streams : \E s2 \in Streams \ {s} :
    /\ stream[s].rcv = "running" /\ stream[s].nBatches = 2
    /\ stream[s].messages = 8 /\ stream[s].bytes = 300
    /\ stream[s].flows = <<AgentRecord(7), HubStatsRecord(9)>>
    /\ stream[s2].rcv = "running" /\ stream[s2].nBatches = 1
    /\ stream[s2].messages = 5 /\ stream[s2].bytes = 200

CertHolders == {p \in CertCallers : certCall[p].pc = "held"}

\* C18: CertStorage.Lock gives mutual exclusion.  At most one caller holds
\* the lock, whatever the keys, and a caller waiting in Lock gets it only in
\* a state where nobody holds it.
C18_CertLockMutualExclusion ==
  /\ [](Cardinality(CertHolders) <= 1)
  /\ [](certStorage.mu <=> CertHolders # {})
  /\ [][\A p \in CertCallers :
          (certCall[p].pc = "lock" /\ certCall'[p].pc = "held")
            => CertHolders = {}]_vars

\* One caller holds the lock for one key while another waits in Lock for a
\* different key.
C18_Witness ==
  \E p \in CertCallers : \E q \in CertCallers :
    /\ certCall[p].pc = "held" /\ certCall[q].pc = "lock"
    /\ certCall[p].key # certCall[q].key
    /\ certStorage.mu

\* The stored keys that begin with prefix.
KeysWithPrefix(prefix) ==
  {e.k : e \in {x \in certStorage.certs : IsPrefix(prefix, x.k)}}

\* The strings of a returned list.
Listed(matches) == {matches[i] : i \in 1..Len(matches)}

\* C19: List returns the keys that match prefix.  A recursive List returns
\* exactly the stored keys that begin with prefix, each once; a List that is
\* not recursive returns only keys among them, and none that lies more than
\* one level below the prefix.
C19_ListReturnsMatchingKeys ==
  [][\A p \in CertCallers :
       (certCall'[p] # certCall[p] /\ certCall'[p].listed
          /\ certCall'[p].pc = certCall[p].pc)
         => LET r == certCall'[p]
            IN /\ Listed(r.matches) \subseteq KeysWithPrefix(r.prefix)
               /\ r.recursive =>
                    /\ Listed(r.matches) = KeysWithPrefix(r.prefix)
                    /\ Len(r.matches) = Cardinality(KeysWithPrefix(r.prefix))
               /\ ~r.recursive =>
                    \A k \in Listed(r.matches) :
                      CountSlash(k) <= CountSlash(r.prefix) + 1]_vars

\* C20: an inbound error ends the session.  Once the receiver of a
\* registered session has stopped on a stream.Recv error, the session's
\* context is eventually done and the session eventually leaves the
\* registry.
C20_InboundErrorEndsSession ==
  \A s \in Streams :
    (stream[s].rcv = "stopped" /\ s \in RegisteredSessions)
      ~> (stream[s].ctxDone /\ s \notin RegisteredSessions)

\* C21: FetchConfig is atomic on failure.  No step of a FetchConfig changes
\* a Hub row or a Service row except the commit that succeeds; so a call
\* that failed after opening its transaction left both tables as they were,
\* and services are deleted only in a step that rotates the Hub row.
C21_FetchConfigAtomicOnFailure ==
  /\ [][\A c \in Calls :
          (call[c].op = "FetchConfig" /\ call'[c] # call[c]
             /\ call'[c].status # "ok")
            => UNCHANGED <<hubs, services>>]_vars
  /\ [][\A c \in Calls :
          (call[c].op = "FetchConfig" /\ call'[c] # call[c]
             /\ \E r \in services \ services' : r.hub = call[c].hr.instance)
            => /\ call'[c].status = "ok"
               /\ HubRow(call[c].stable)'.instance = call[c].hub
               /\ call[c].hub # call[c].hr.instance]_vars
  /\ [](\A c \in Calls :
          (call[c].op = "FetchConfig" /\ call[c].pc = "done"
             /\ call[c].status # "ok")
            => ~call[c].locked /\ call[c].txDel = {})

\* A rotating FetchConfig has failed after its transaction had the services
\* of the previous instance to delete: they are still there and the Hub row
\* still names the previous instance.
C21_Witness ==
  \E c \in Calls :
    /\ Rotating(c) /\ call[c].pc = "done"
    /\ call[c].status = "store-failure" /\ ~call[c].aborted
    /\ \E r \in ServicesOf(call[c].hr.instance) : \E k \in committed :
         /\ k.bid < call[c].id
         /\ k.row = <<"svc", r.acct, r.hub, r.svc>>
    /\ HubRow(call[c].stable) = call[c].hr

\* A FetchConfig transaction that found the Hub row with the requested
\* instance.
Refreshing(c) ==
  /\ call[c].op = "FetchConfig"
  /\ call[c].pc \in {"update", "commit"}
  /\ call[c].hr # NoHub
  /\ call[c].hr.instance = call[c].hub

\* A FetchConfig transaction that found no Hub row.
Creating(c) ==
  /\ call[c].op = "FetchConfig"
  /\ call[c].pc \in {"insert", "commit"}
  /\ call[c].hr = NoHub /\ ~call[c].aborted

\* C22: a FetchConfig with an unchanged instance changes only the check-in
\* data of its Hub row: no Service row, no other Hub row and not the row's
\* instance_id; a FetchConfig that finds no row of its stable id inserts
\* exactly one Hub row and deletes nothing.
C22_RefreshChangesOnlyCheckin ==
  /\ [][\A c \in Calls :
          (Refreshing(c) /\ call'[c] # call[c])
            => /\ services' = services
               /\ \A h \in hubs : h.stable # call[c].stable => h \in hubs'
               /\ \A h \in hubs' : h.stable # call[c].stable => h \in hubs
               /\ HubRow(call[c].stable)'.instance
                    = HubRow(call[c].stable).instance
               /\ call'[c].status = "ok" =>
                    hubs' = (hubs \ {call[c].hr}) \cup
                              {[call[c].hr EXCEPT !.conn = call[c].conn]}]_vars
  /\ [][\A c \in Calls :
          (Creating(c) /\ call'[c] # call[c])
            => /\ services' = services
               /\ hubs \subseteq hubs'
               /\ call'[c].status = "ok" =>
                    /\ Cardinality(hubs') = Cardinality(hubs) + 1
                    /\ hubs' \ hubs =
                         {[stable |-> call[c].stable, instance |-> call[c].hub,
                           conn |-> call[c].conn]}
               /\ call'[c].status # "ok" => hubs' = hubs]_vars

\* A check-in with the stored instance and a new location has committed
\* while the row of another hub exists.
C22_Witness ==
  \E c \in Calls :
    /\ call[c].op = "FetchConfig" /\ call[c].pc = "done"
    /\ call[c].status = "ok"
    /\ call[c].hr # NoHub /\ call[c].hr.instance = call[c].hub
    /\ call[c].hr.conn # call[c].conn
    /\ HubRow(call[c].stable) = [call[c].hr EXCEPT !.conn = call[c].conn]
    /\ \E h \in hubs : h.stable # call[c].stable

\* The deltas of the activity reader that a session has been handed.
ReaderDeltas(s) ==
  {i \in 1..Len(handed[s]) : handed[s][i].desc[1] = "activity"}

IsReader(c) == call[c].op = "ActivityReader"

\* C23 as stated: every batch taken becomes one delta of its decoded
\* entries, and from the moment the channel is closed or the reader's
\* context is done the reader takes no further batch, so it starts no
\* further delta.
C23_ReaderStopsAtOnce ==
  /\ [](\A c \in Calls : (IsReader(c) /\ call[c].pc \in {"rlock", "fanout"})
          => call[c].adds = DecodeBatch(call[c].ev))
  /\ [][\A c \in Calls :
          (IsReader(c) /\ (call[c].ctxDone \/ activityC.closed))
            => call'[c].nRecv = call[c].nRecv]_vars

\* C23, amended: every batch the reader takes becomes exactly one call of
\* broadcastActivity whose delta carries the entries of that batch that
\* decode, in order, the malformed ones left out; no session is handed the
\* delta of one batch twice.  At a closed channel the reader can only stop;
\* with its context done it can stop, though its select may still take a
\* batch that is offered; once stopped it does nothing more.
C23_ReaderBatching ==
  /\ [](\A c \in Calls : (IsReader(c) /\ call[c].pc \in {"rlock", "fanout"})
          => /\ call[c].adds = DecodeBatch(call[c].ev)
             /\ Delta(c).desc = <<"activity", call[c].nRecv, call[c].adds>>)
  /\ [][\A c \in Calls :
          (IsReader(c) /\ call[c].pc # "rlock" /\ call'[c].pc = "rlock")
            => /\ call[c].pc = "select"
               /\ activityC.offer # NoBatch
               /\ activityC'.offer = NoBatch
               /\ call'[c].ev = activityC.offer
               /\ call'[c].adds = DecodeBatch(activityC.offer)
               /\ call'[c].nRecv = call[c].nRecv + 1]_vars
  /\ [][\A c \in Calls :
          (IsReader(c) /\ call'[c].nRecv # call[c].nRecv)
            => call[c].pc = "select" /\ call'[c].pc = "rlock"]_vars
  /\ [](\A c \in Calls : (IsReader(c) /\ Broadcasting(c)) =>
          \A s \in RegisteredSessions :
            Occurrences(handed[s], Delta(c)) =
              IF s \in call[c].todo \cup {call[c].cur} THEN 0 ELSE 1)
  /\ [](\A s \in Streams : \A i, j \in ReaderDeltas(s) :
          /\ handed[s][i] = handed[s][j] => i = j
          /\ \E ev \in ActivityBatches :
               handed[s][i].desc[3] = DecodeBatch(ev))
  /\ [](\A c \in Calls : At(c, "ActivityReader", "select") =>
          /\ activityC.closed
               => ENABLED ReaderStopClosed(c) /\ ~ENABLED ReaderRecv(c)
          /\ call[c].ctxDone => ENABLED ReaderStopCtx(c))
  /\ [][\A c \in Calls : At(c, "ActivityReader", "stopped")
          => call'[c] = call[c]]_vars

\* The reader took the batch with a malformed entry between two good ones,
\* handed both registered sessions the two good entries in order, and
\* stopped at the closed channel.
C23_Witness ==
  \E c \in Calls :
    /\ At(c, "ActivityReader", "stopped")
    /\ activityC.closed /\ ~call[c].ctxDone
    /\ call[c].ev = <<Entry(2), Malformed, Entry(1)>>
    /\ connectedHubs[1] # 0 /\ connectedHubs[2] # 0
    /\ connectedHubs[1] # connectedHubs[2]
    /\ \A s \in RegisteredSessions :
         \E i \in ReaderDeltas(s) : handed[s][i].desc[3] = <<2, 1>>

\* The sender loop of session s is running: it waits on its queue or sends.
SenderRunning(s) == stream[s].pc \in {"loop", "send"}

\* C24: every session whose sender loop is running is in the registry
\* under its hub key, and that entry is the session's own queue; the exit
\* of a stream leaves the entry of every other running stream as it was.
C24_RegistryMatchesSessions ==
  \A s \in Streams :
    SenderRunning(s) => connectedHubs[stream[s].key] = s

\* C25: every Service row belongs to the current instance of some Hub row.
C25_NoOrphanServices ==
  \A r \in services : \E h \in hubs : h.instance = r.hub

\* An AddService that has returned an error to its caller.
AddServiceFailed(c) ==
  /\ At(c, "AddService", "done")
  /\ call[c].status # "ok"

\* C26: after an AddService has returned an error, the store shows no
\* Service row inserted by that request and no session has been handed a
\* delta of it.
C26_FailedAddServiceLeavesNoTrace ==
  \A c \in Calls : AddServiceFailed(c) =>
    /\ ~(/\ Committed(c) \in committed
         /\ \E r \in services :
              <<r.acct, r.hub, r.svc>> =
                <<call[c].acct, call[c].hub, call[c].svc>>)
    /\ \A s \in Streams : Occurrences(handed[s], Delta(c)) = 0

====
